---- MODULE Spec2Model ----
\* Verification model of the nexus-zkvm RISC-V emulator core:
\*   vm/src/riscv/decoder.rs      (decode_instructions, decode_until_end_of_a_block)
\*   vm/src/emulator/executor.rs  (HarvardEmulator, LinearEmulator, Emulator::execute)
\* and of the prover built on it:
\*   prover/src/lib.rs                        (Machine::prove)
\*   prover/src/chips/instructions/bgeu.rs    (BgeuChip)
\*   prover/src/machine2/chips/slt.rs         (SltChip)
EXTENDS Integers, Sequences, FiniteSets, TLC

\* ---------------------------------------------------------------- bounds
\* longest instruction slice / program image that is enumerated
MaxLen == 3
\* execution is cut off when global_clock reaches this value
MaxClock == 7
\* memory instructions are enumerated while global_clock is below this value
MaxAccessClock == 5
\* public inputs have at most MaxInput bytes
MaxInput == 2
\* AllLookupElements::insert is called at most MaxInserts times
MaxInserts == 3
\* the trace handed to Machine::prove has at most MaxSteps steps
MaxSteps == 5

\* ---------------------------------------------------------------- u32
\* A u32 is the pair <<hi, lo>> of its 16-bit halves, so that words with bit 31
\* set and wrapping arithmetic stay inside the integers of the model checker.
Half == 2 ^ 16

WORD_SIZE == 4

U32(n) == <<(n \div Half) % Half, n % Half>>

Add32(a, b) ==
    <<(a[1] + b[1] + ((a[2] + b[2]) \div Half)) % Half, (a[2] + b[2]) % Half>>

\* bit i of the 16-bit number a
Bit(a, i) == (a \div (2 ^ i)) % 2

\* bitwise AND of two 16-bit numbers, bit by bit
RECURSIVE AndFrom(_, _, _)
AndFrom(a, b, i) ==
    IF i = 16 THEN 0 ELSE Bit(a, i) * Bit(b, i) * (2 ^ i) + AndFrom(a, b, i + 1)

And16(a, b) == AndFrom(a, b, 0)

\* w & mask
And32(w, mask) == <<And16(w[1], mask[1]), And16(w[2], mask[2])>>

\* (w >> shift) as u8, for a masked w
Shr32AsU8(w, shift) ==
    (IF shift >= 16 THEN w[1] \div (2 ^ (shift - 16))
     ELSE (w[1] % (2 ^ shift)) * (2 ^ (16 - shift)) + (w[2] \div (2 ^ shift))) % 256

\* bits lo .. lo+len-1 of w as a number (len <= 30)
Bits(w, lo, len) ==
    IF lo >= 16 THEN (w[1] \div (2 ^ (lo - 16))) % (2 ^ len)
    ELSE ((w[2] \div (2 ^ lo))
          + (w[1] % (2 ^ (IF lo + len > 16 THEN lo + len - 16 ELSE 0))) * (2 ^ (16 - lo)))
         % (2 ^ len)

\* sign extension of an n-bit field to a u32
SignExt(v, n) == IF v < 2 ^ (n - 1) THEN U32(v) ELSE U32(v - 2 ^ n)

\* ---------------------------------------------------------------- instructions
\* Option::None of an Option<u8>
NoneU8 == 0 - 1

Opcode(raw, fn3, fn7, name) == [raw |-> raw, fn3 |-> fn3, fn7 |-> fn7, name |-> name]

Instruction(opcode, op_a, op_b, op_c, ins_type) ==
    [opcode |-> opcode, op_a |-> op_a, op_b |-> op_b, op_c |-> op_c, ins_type |-> ins_type]

\* Instruction::unimpl()
Unimpl == Instruction(Opcode(0, NoneU8, NoneU8, "unimp"), 0, 0, U32(0), "Unimpl")

is_branch_or_jump_instruction(ins) == ins.opcode.raw \in {99, 103, 111}

is_system_instruction(ins) == ins.opcode.raw = 115

OpNames    == <<"add", "sll", "slt", "sltu", "xor", "srl", "or", "and">>
OpImmNames == <<"addi", "slli", "slti", "sltiu", "xori", "srli", "ori", "andi">>
BranchNames == <<"beq", "bne", "", "", "blt", "bge", "bltu", "bgeu">>
LoadNames  == <<"lb", "lh", "lw", "", "lbu", "lhu">>
StoreNames == <<"sb", "sh", "sw">>

\* immediates of the I, S, B, U and J formats
ImmI(w) == SignExt(Bits(w, 20, 12), 12)
ImmS(w) == SignExt(Bits(w, 7, 5) + 32 * Bits(w, 25, 7), 12)
ImmB(w) == SignExt(2 * Bits(w, 8, 4) + 32 * Bits(w, 25, 6)
                   + 2048 * Bits(w, 7, 1) + 4096 * Bits(w, 31, 1), 13)
ImmU(w) == <<w[1], (w[2] \div 4096) * 4096>>
ImmJ(w) == SignExt(2 * Bits(w, 21, 10) + 2048 * Bits(w, 20, 1)
                   + 4096 * Bits(w, 12, 8) + 1048576 * Bits(w, 31, 1), 21)

\* the instruction of a word with major opcode opc and fields f3, f7, rd, rs1, rs2:
\* Some(instruction) as <<instruction>>, None as <<>>
DecodeFields(w, opc, f3, f7, rd, rs1, rs2) ==
    CASE opc = 51 /\ f7 = 0 ->
           <<Instruction(Opcode(51, f3, 0, OpNames[f3 + 1]), rd, rs1, U32(rs2), "RType")>>
      [] opc = 51 /\ f7 = 32 /\ f3 \in {0, 5} ->
           <<Instruction(Opcode(51, f3, 32, IF f3 = 0 THEN "sub" ELSE "sra"),
                         rd, rs1, U32(rs2), "RType")>>
      [] opc = 19 /\ f3 \notin {1, 5} ->
           <<Instruction(Opcode(19, f3, NoneU8, OpImmNames[f3 + 1]), rd, rs1, ImmI(w), "IType")>>
      [] opc = 19 /\ f3 \in {1, 5} /\ f7 = 0 ->
           <<Instruction(Opcode(19, f3, 0, OpImmNames[f3 + 1]), rd, rs1, U32(rs2),
                         "ITypeShamt")>>
      [] opc = 19 /\ f3 = 5 /\ f7 = 32 ->
           <<Instruction(Opcode(19, 5, 32, "srai"), rd, rs1, U32(rs2), "ITypeShamt")>>
      [] opc = 3 /\ f3 \in {0, 1, 2, 4, 5} ->
           <<Instruction(Opcode(3, f3, NoneU8, LoadNames[f3 + 1]), rd, rs1, ImmI(w), "IType")>>
      [] opc = 35 /\ f3 \in {0, 1, 2} ->
           <<Instruction(Opcode(35, f3, NoneU8, StoreNames[f3 + 1]), rs1, rs2, ImmS(w), "SType")>>
      [] opc = 99 /\ f3 \in {0, 1, 4, 5, 6, 7} ->
           <<Instruction(Opcode(99, f3, NoneU8, BranchNames[f3 + 1]), rs1, rs2, ImmB(w), "BType")>>
      [] opc = 111 ->
           <<Instruction(Opcode(111, NoneU8, NoneU8, "jal"), rd, 0, ImmJ(w), "JType")>>
      [] opc = 103 /\ f3 = 0 ->
           <<Instruction(Opcode(103, 0, NoneU8, "jalr"), rd, rs1, ImmI(w), "IType")>>
      [] opc = 55 ->
           <<Instruction(Opcode(55, NoneU8, NoneU8, "lui"), rd, 0, ImmU(w), "UType")>>
      [] opc = 23 ->
           <<Instruction(Opcode(23, NoneU8, NoneU8, "auipc"), rd, 0, ImmU(w), "UType")>>
      [] w = <<0, 115>> ->
           <<Instruction(Opcode(115, 0, NoneU8, "ecall"), 0, 0, U32(0), "IType")>>
      [] w = <<16, 115>> ->
           <<Instruction(Opcode(115, 0, NoneU8, "ebreak"), 0, 0, U32(1), "IType")>>
      [] OTHER -> <<>>

\* rrs_lib::process_instruction with the crate's InstructionDecoder. RV32I base forms;
\* the M extension, FENCE and CSR forms are not among the words of the model.
process_instruction(w) ==
    DecodeFields(w, Bits(w, 0, 7), Bits(w, 12, 3), Bits(w, 25, 7),
                 Bits(w, 7, 5), Bits(w, 15, 5), Bits(w, 20, 5))

\* ---------------------------------------------------------------- decoder.rs
OPCODE_MASK == <<0, 127>>
FN3_MASK    == <<0, 28672>>
FN3_SHIFT   == 12
FN7_MASK    == <<65024, 0>>
FN7_SHIFT   == 25
RD_MASK     == <<0, 3968>>
RD_SHIFT    == 7
RS1_MASK    == <<15, 32768>>
RS1_SHIFT   == 15
RS2_MASK    == <<496, 0>>
RS2_SHIFT   == 20

extract_opcode(w) == Shr32AsU8(And32(w, OPCODE_MASK), 0)
extract_fn3(w)    == Shr32AsU8(And32(w, FN3_MASK), FN3_SHIFT)
extract_fn7(w)    == Shr32AsU8(And32(w, FN7_MASK), FN7_SHIFT)
extract_rd(w)     == Shr32AsU8(And32(w, RD_MASK), RD_SHIFT)
extract_rs1(w)    == Shr32AsU8(And32(w, RS1_MASK), RS1_SHIFT)
extract_rs2(w)    == Shr32AsU8(And32(w, RS2_MASK), RS2_SHIFT)

DYNAMIC_RTYPE_OPCODE == 11

\* the closure given to unwrap_or_else in decode_until_end_of_a_block
DecodeCustom(w) ==
    IF extract_opcode(w) # DYNAMIC_RTYPE_OPCODE THEN Unimpl
    ELSE Instruction(Opcode(extract_opcode(w), extract_fn3(w), extract_fn7(w), "dynamic"),
                     extract_rd(w), extract_rs1(w), U32(extract_rs2(w)), "RType")

\* Option::unwrap_or_else
UnwrapOrElse(option, otherwise) == IF option # <<>> THEN option[1] ELSE otherwise

\* the instruction decode_until_end_of_a_block pushes for one word
DecodeWordBlock(w) == UnwrapOrElse(process_instruction(w), DecodeCustom(w))

\* the instruction decode_instructions pushes for one word
DecodeWordProgram(w) == UnwrapOrElse(process_instruction(w), Unimpl)

\* a loop that leaves on jumps only and runs through conditional branches
BlockBreakJumpsOnly(ins) == ins.opcode.raw \in {103, 111}

\* a loop that never leaves through `break`
BlockBreakNever(ins) == FALSE

\* whether the loop of decode_until_end_of_a_block leaves after pushing ins
BlockBreak(ins) == is_branch_or_jump_instruction(ins)

\* one iteration of the loop of decode_until_end_of_a_block on the decoded word
BlockIteration(before, decoded_instruction) ==
    IF before.broke THEN before
    ELSE [block |-> Append(before.block, decoded_instruction),
          broke |-> BlockBreak(decoded_instruction)]

\* the loop of decode_until_end_of_a_block: loop[k] is the block after k words and
\* whether the loop has left through `break`
BlockLoop(s) ==
    LET loop[k \in 0..Len(s)] ==
            IF k = 0 THEN [block |-> <<>>, broke |-> FALSE]
            ELSE BlockIteration(loop[k - 1], DecodeWordBlock(s[k]))
    IN  loop[Len(s)].block

decode_until_end_of_a_block(u32_instructions) == BlockLoop(u32_instructions)

\* the value assigned to start_new_block after decoding ins
StartNewBlock(ins) == is_branch_or_jump_instruction(ins)

\* the flush without its emptiness check
FlushWithoutEmptyCheck(before) == before.start_new_block

\* `if start_new_block && !current_block.0.is_empty()`
Flush(before) == before.start_new_block /\ before.current_block # <<>>

\* one iteration of the loop of decode_instructions on the decoded word
ProgramIteration(before, decoded_instruction) ==
    [blocks |-> IF Flush(before) THEN Append(before.blocks, before.current_block)
                ELSE before.blocks,
     current_block |-> Append(IF Flush(before) THEN <<>> ELSE before.current_block,
                              decoded_instruction),
     start_new_block |-> StartNewBlock(decoded_instruction)]

\* the loop of decode_instructions: loop[k] is (program.blocks, current_block,
\* start_new_block) after k words
ProgramLoop(s) ==
    LET loop[k \in 0..Len(s)] ==
            IF k = 0 THEN [blocks |-> <<>>, current_block |-> <<>>, start_new_block |-> TRUE]
            ELSE ProgramIteration(loop[k - 1], DecodeWordProgram(s[k]))
    IN  loop[Len(s)]

\* `if !current_block.0.is_empty() { program.blocks.push(current_block) }`
PushLast(end) ==
    IF end.current_block # <<>> THEN Append(end.blocks, end.current_block) ELSE end.blocks

decode_instructions(u32_instructions) == PushLast(ProgramLoop(u32_instructions))

\* ---------------------------------------------------------------- instruction words
ADDI_X1_X0_1     == <<16, 147>>        \* 0x00100093
ADDI_X17_X0_513  == <<8208, 2195>>     \* 0x20100893
ADDI_X17_X0_1025 == <<16400, 2195>>    \* 0x40100893
ADD_X2_X1_X1     == <<16, 33075>>      \* 0x00108133
SUB_X3_X1_X2     == <<16416, 33203>>   \* 0x402081B3
BEQ_X0_X1_8      == <<16, 1123>>       \* 0x00100463
BGEU_X1_X2_M4    == <<65056, 65251>>   \* 0xFE20FEE3
JAL_X0_M4        == <<65503, 61551>>   \* 0xFFDFF06F
JAL_X1_8         == <<128, 239>>       \* 0x008000EF
ECALL            == <<0, 115>>         \* 0x00000073
DYN_5_4_3_2_1    == <<2625, 41099>>    \* 0x0A41A08B  fn7=5 rs2=4 rs1=3 fn3=2 rd=1
DYN_ALL_ONES     == <<65535, 65419>>   \* 0xFFFFFF8B  fn7=127 rs2=31 rs1=31 fn3=7 rd=31
DYN_HIGH_BITS    == <<33032, 51211>>   \* 0x8108C80B  fn7=64 rs2=16 rs1=17 fn3=4 rd=16
CUSTOM_0X2B      == <<0, 43>>          \* 0x0000002B  another custom major opcode
ZERO_WORD        == <<0, 0>>           \* 0x00000000
ONES_WORD        == <<65535, 65535>>   \* 0xFFFFFFFF

\* words of the slices handed to the two decoders
DecWords == {ADDI_X1_X0_1, SUB_X3_X1_X2, BEQ_X0_X1_8, BGEU_X1_X2_M4, JAL_X0_M4, ECALL,
             DYN_5_4_3_2_1, DYN_ALL_ONES, DYN_HIGH_BITS, CUSTOM_0X2B, ZERO_WORD, ONES_WORD}

\* words of the program images the emulators run
ProgWords == {ADDI_X1_X0_1, ADDI_X17_X0_513, ADDI_X17_X0_1025, BEQ_X0_X1_8, JAL_X0_M4,
              ECALL, DYN_5_4_3_2_1, ZERO_WORD}

SeqsUpTo(S, n) == UNION {[1..k -> S] : k \in 0..n}

\* ---------------------------------------------------------------- state
VARIABLES
    kind,                 \* "harvard" (HarvardEmulator) or "linear" (LinearEmulator)
    instruction_memory,   \* the program image, a sequence of instruction words
    base_address,         \* Executor.base_address: address of the first instruction
    pc,                   \* executor.cpu.pc.value
    registers,            \* executor.cpu.registers, x0..x31
    global_clock,         \* Executor.global_clock
    basic_block_cache,    \* Executor.basic_block_cache: starting PC -> BasicBlock
    instruction_executor, \* Executor.instruction_executor, the registry
    phase,                \* position in execute(): "fetch", "exec" or "done"
    basic_block,          \* the block execute_basic_block is running
    idx,                  \* index in basic_block of the next instruction
    bb_results,           \* `results` of the running execute_basic_block
    results,              \* `results` of execute()
    result,               \* what execute() returned
    last,                 \* the last call of fetch_block / execute_instruction
    first_block,          \* history: PC -> the block its first successful fetch returned
    executed,             \* history: number of execute_instruction calls that returned Ok
    slice,                \* decoders: the input slice
    out_block,            \* decoders: result of decode_until_end_of_a_block
    out_program,          \* decoders: result of decode_instructions
    decoded,              \* decoders: which of the two have run
    access_timestamps,    \* LinearEmulator.access_timestamps: address -> last access clock
    memory_records,       \* the MemoryRecords the last execute_instruction returned
    mem_ops,              \* the (load_ops, store_ops) of the last instruction
    ts_before,            \* history: access_timestamps before the last instruction
    hist,                 \* history: (size, address) -> clock of the most recent such access
    hist_before,          \* history: hist before the last instruction
    order_outcomes,       \* history: results of the last instruction, one per iteration order
    public_input,         \* the public input the emulator was constructed with
    input_memory,         \* the public input memory: base address and bytes
    output_memory,        \* the public output segment: base address and length in bytes
    io_words,             \* the two words at 0x80 and 0x84
    memory_layout,        \* LinearEmulator.memory_layout
    trace,                \* history: index in the image of each instruction executed
    harvard_pass,         \* history: the first pass, as from_harvard found it
    all_lookup_elements,  \* AllLookupElements.0: TypeId -> RelationVariant
    panicked,             \* whether an insert has panicked
    inserted,             \* history: the relations handed to insert with their types,
                          \* in order
    prove_pc,             \* Machine::prove: the statement that runs next
    num_steps,            \* trace.get_num_steps()
    program,              \* number of entries of the ProgramInfo
    log_size,             \* log2 of the number of rows
    prover_traces,        \* the rows of the main trace filled so far
    finalized_trace,      \* prover_traces.finalize(), once made
    lookup_elements,      \* the lookup elements, once drawn
    interaction_trace,    \* the interaction trace, once filled
    prover_channel,       \* the Blake2sChannel: what has been mixed in and drawn
    commitment_scheme,    \* the CommitmentSchemeProver: the trees committed
    backend_calls,        \* history: number of calls of the backend's prove
    backend_outcome,      \* history: what the backend's prove returned
    prove_result,         \* what Machine::prove returned
    config,               \* PcsConfig::default()
    twiddles,             \* the twiddles precomputed for the FFTs
    component,            \* the MachineEval handed to the backend, once made
    vm_step,              \* chips: the Option<ProgramStep> of the row being filled
    traces,               \* chips: the cells of that row, column by column
    side_note,            \* chips: the SideNote handed to fill_main_trace
    execution_result,     \* chips: what the last call of a chip's execute returned
    filled,               \* chips: the chips whose fill_main_trace has run, in order
    forged,               \* chips: how a prover overwrote the row, if it did
    row_idx,              \* chips: the row index handed to fill_main_trace
    written,              \* chips: the (row, column) cells the last call of
                          \* fill_main_trace wrote, in order
    block_transcript,     \* `transcript` of an execute_basic_block called on its own
    block_log             \* history: the instructions that call ran, with the registers
                          \* each one found and left

emu_vars == <<kind, instruction_memory, base_address, pc, registers, global_clock,
              basic_block_cache, instruction_executor, phase, basic_block, idx,
              bb_results, results, result, last, first_block, executed>>
dec_vars == <<slice, out_block, out_program, decoded>>
mem_vars == <<access_timestamps, memory_records, mem_ops, ts_before, hist, hist_before,
              order_outcomes>>
pass_vars == <<public_input, input_memory, output_memory, io_words, memory_layout, trace,
               harvard_pass>>
lookup_vars == <<all_lookup_elements, panicked, inserted>>
prove_vars == <<prove_pc, num_steps, program, log_size, prover_traces, finalized_trace,
                lookup_elements, interaction_trace, prover_channel, commitment_scheme,
                backend_calls, backend_outcome, prove_result, config, twiddles, component>>
chip_vars == <<vm_step, traces, side_note, execution_result, filled, forged, row_idx,
              written>>
prover_vars == <<lookup_vars, prove_vars, chip_vars>>
block_vars == <<block_transcript, block_log>>
vars == <<emu_vars, dec_vars, mem_vars, pass_vars, prover_vars, block_vars>>

\* ---------------------------------------------------------------- errors
NoOpcode == Opcode(NoneU8, NoneU8, NoneU8, "")

VMError(name, opcode, code) == [name |-> name, opcode |-> opcode, code |-> code]

NoError              == VMError("", NoOpcode, U32(0))
VMOutOfInstructions  == VMError("VMOutOfInstructions", NoOpcode, U32(0))
VMExited(code)       == VMError("VMExited", NoOpcode, code)
UndefinedInstruction(opcode) == VMError("UndefinedInstruction", opcode, U32(0))
UnimplementedSyscall(code)   == VMError("UnimplementedSyscall", NoOpcode, code)

\* ---------------------------------------------------------------- registry
\* InstructionExecutorRegistry: the opcodes with a standard executor and the two overlays
BuiltinOpcodes ==
    {Opcode(51, f3, 0, OpNames[f3 + 1]) : f3 \in 0..7}
    \cup {Opcode(51, 0, 32, "sub"), Opcode(51, 5, 32, "sra")}
    \cup {Opcode(19, f3, NoneU8, OpImmNames[f3 + 1]) : f3 \in {0, 2, 3, 4, 6, 7}}
    \cup {Opcode(99, f3, NoneU8, BranchNames[f3 + 1]) : f3 \in {0, 1, 4, 5, 6, 7}}
    \cup {Opcode(111, NoneU8, NoneU8, "jal"), Opcode(103, 0, NoneU8, "jalr")}
    \cup {Opcode(3, 2, NoneU8, "lw"), Opcode(35, 2, NoneU8, "sw")}

\* the opcode a host registers for the custom word DYN_5_4_3_2_1
HostOpcode == Opcode(DYNAMIC_RTYPE_OPCODE, 2, 5, "dynamic")

Registry(builtins, read_input, write_output) ==
    [builtins |-> builtins, read_input |-> read_input, write_output |-> write_output]

\* registries an emulator can be given: the default one, and the host opcode added as a
\* standard executor (add_opcode), as the read_input overlay or as the write_output overlay
Registries ==
    {Registry(BuiltinOpcodes, {}, {}),
     Registry(BuiltinOpcodes \cup {HostOpcode}, {}, {}),
     Registry(BuiltinOpcodes, {HostOpcode}, {}),
     Registry(BuiltinOpcodes, {}, {HostOpcode})}

\* InstructionExecutorRegistry::get: Ok(executor) or Err(UndefinedInstruction(opcode))
RegistryGet(reg, opcode) ==
    IF opcode \in reg.builtins THEN [ok |-> TRUE, err |-> NoError]
    ELSE [ok |-> FALSE, err |-> UndefinedInstruction(opcode)]

get_for_read_input(reg, opcode) == opcode \in reg.read_input

get_for_write_output(reg, opcode) == opcode \in reg.write_output

\* ---------------------------------------------------------------- cpu
WriteReg(regs, r, v) == IF r = 0 THEN regs ELSE [regs EXCEPT ![r] = v]

Effect(ok, err, regs, pcv) == [ok |-> ok, err |-> err, regs |-> regs, pc |-> pcv]

\* the standard executors (cpu/instructions) of the opcodes the program words use;
\* a host-defined executor leaves the architectural state alone
RunNamed(n, ins, regs, pcv) ==
        CASE n = "addi" ->
               Effect(TRUE, NoError, WriteReg(regs, ins.op_a, Add32(regs[ins.op_b], ins.op_c)), pcv)
          [] n = "add" ->
               Effect(TRUE, NoError,
                      WriteReg(regs, ins.op_a, Add32(regs[ins.op_b], regs[ins.op_c[2]])), pcv)
          [] n = "beq" ->
               Effect(TRUE, NoError, regs,
                      IF regs[ins.op_a] = regs[ins.op_b] THEN Add32(pcv, ins.op_c)
                      ELSE Add32(pcv, U32(WORD_SIZE)))
          [] n = "bne" ->
               Effect(TRUE, NoError, regs,
                      IF regs[ins.op_a] # regs[ins.op_b] THEN Add32(pcv, ins.op_c)
                      ELSE Add32(pcv, U32(WORD_SIZE)))
          [] n = "jal" ->
               Effect(TRUE, NoError, WriteReg(regs, ins.op_a, Add32(pcv, U32(WORD_SIZE))),
                      Add32(pcv, ins.op_c))
          [] n = "lw" ->
               Effect(TRUE, NoError, WriteReg(regs, ins.op_a, U32(0)), pcv)
          [] OTHER -> Effect(TRUE, NoError, regs, pcv)

RunExecutor(ins, regs, pcv) == RunNamed(ins.opcode.name, ins, regs, pcv)

\* syscall codes, read from a7 = x17
SYS_EXIT        == U32(513)
SYS_CYCLE_COUNT == U32(1025)

\* Emulator::execute_syscall: decode from the a-registers, execute, write back
execute_syscall(ins, regs, pcv) ==
    IF regs[17] = SYS_EXIT THEN Effect(FALSE, VMExited(regs[10]), regs, pcv)
    ELSE IF regs[17] = SYS_CYCLE_COUNT THEN Effect(TRUE, NoError, regs, pcv)
    ELSE Effect(FALSE, UnimplementedSyscall(regs[17]), regs, pcv)

\* the read_input executor (a load from the input memory; the word read is taken to be
\* 0, as for lw) and the write_output executor (a store)
RunReadInput(ins, regs, pcv) == Effect(TRUE, NoError, WriteReg(regs, ins.op_a, U32(0)), pcv)

RunWriteOutput(ins, regs, pcv) == Effect(TRUE, NoError, regs, pcv)

\* MemoryStats::update with no load and no store op
MemoryStatsUpdate(sp) == TRUE

\* ---------------------------------------------------------------- execute_instruction
\* a match that hands an opcode without executor to a do-nothing executor
DispatchSkipsUnknown(reg, ins) ==
    IF is_system_instruction(ins) THEN "syscall"
    ELSE IF get_for_read_input(reg, ins.opcode) THEN "read_input"
    ELSE IF get_for_write_output(reg, ins.opcode) THEN "write_output"
    ELSE "executor"

\* a match whose write_output arm comes before its read_input arm
DispatchWriteFirst(reg, ins) ==
    IF is_system_instruction(ins) THEN "syscall"
    ELSE IF get_for_write_output(reg, ins.opcode) THEN "write_output"
    ELSE IF get_for_read_input(reg, ins.opcode) THEN "read_input"
    ELSE IF RegistryGet(reg, ins.opcode).ok THEN "executor"
    ELSE "error"

\* the arm of the match in execute_instruction that runs for ins
Dispatch(reg, ins) ==
    IF is_system_instruction(ins) THEN "syscall"
    ELSE IF get_for_read_input(reg, ins.opcode) THEN "read_input"
    ELSE IF get_for_write_output(reg, ins.opcode) THEN "write_output"
    ELSE IF RegistryGet(reg, ins.opcode).ok THEN "executor"
    ELSE "error"

RunArm(arm, reg, ins, regs, pcv) ==
    CASE arm = "syscall"      -> execute_syscall(ins, regs, pcv)
      [] arm = "read_input"   -> RunReadInput(ins, regs, pcv)
      [] arm = "write_output" -> RunWriteOutput(ins, regs, pcv)
      [] arm = "executor"     -> RunExecutor(ins, regs, pcv)
      [] OTHER                -> Effect(FALSE, RegistryGet(reg, ins.opcode).err, regs, pcv)

\* the memory the arm hands to what it calls: the Harvard emulator has three, the
\* linear one a single unified memory
ArmMemory(k, arm) ==
    IF arm = "error" THEN "none"
    ELSE IF k = "linear" THEN "memory"
    ELSE CASE arm = "read_input"   -> "input_memory"
           [] arm = "write_output" -> "output_memory"
           [] OTHER                -> "data_memory"

\* a step of the PC after every instruction, branch or not
PcStepAlways(ins, pcv) == Add32(pcv, U32(WORD_SIZE))

\* if !bare_instruction.is_branch_or_jump_instruction() { pc.step() }
PcStep(ins, pcv) ==
    IF ~is_branch_or_jump_instruction(ins) THEN Add32(pcv, U32(WORD_SIZE)) ELSE pcv

\* a clock that ticks only where the PC is stepped
ClockTickWithPcStep(ins, clock) ==
    IF ~is_branch_or_jump_instruction(ins) THEN clock + 1 ELSE clock

\* self.executor.global_clock += 1
ClockTick(ins, clock) == clock + 1

Outcome(ok, err, regs, pcv, clock, res, pc_exec, arm) ==
    [ok |-> ok, err |-> err, regs |-> regs, pc |-> pcv, clock |-> clock, res |-> res,
     pc_exec |-> pc_exec, arm |-> arm]

\* HarvardEmulator::execute_instruction after the match: e is what the arm returned
HarvardAfterMatch(arm, e, ins, clock) ==
    IF ~e.ok
    THEN Outcome(FALSE, e.err, e.regs, e.pc, clock, "None", e.pc, arm)
    ELSE IF arm \notin {"read_input", "write_output"} /\ ~MemoryStatsUpdate(e.regs[2])
    THEN Outcome(FALSE, e.err, e.regs, e.pc, clock, "None", e.pc, arm)
    ELSE Outcome(TRUE, NoError, e.regs, PcStep(ins, e.pc), ClockTick(ins, clock),
                 "None", e.pc, arm)

HarvardMatch(arm, reg, ins, regs, pcv, clock) ==
    HarvardAfterMatch(arm, RunArm(arm, reg, ins, regs, pcv), ins, clock)

\* HarvardEmulator::execute_instruction
HarvardExecuteInstruction(reg, ins, regs, pcv, clock) ==
    HarvardMatch(Dispatch(reg, ins), reg, ins, regs, pcv, clock)

\* an execute_instruction that steps the PC and the clock before it looks at the error
LinearAfterMatchStepsFirst(arm, e, ins, clock) ==
    Outcome(e.ok, e.err, e.regs, PcStep(ins, e.pc), ClockTick(ins, clock), "None", e.pc, arm)

\* LinearEmulator::execute_instruction after the match (the instructions of the model
\* make no load or store op, so memory_records stays empty)
LinearAfterMatch(arm, e, ins, clock) ==
    IF ~e.ok
    THEN Outcome(FALSE, e.err, e.regs, e.pc, clock, "None", e.pc, arm)
    ELSE Outcome(TRUE, NoError, e.regs, PcStep(ins, e.pc), ClockTick(ins, clock),
                 "None", e.pc, arm)

LinearMatch(arm, reg, ins, regs, pcv, clock) ==
    LinearAfterMatch(arm, RunArm(arm, reg, ins, regs, pcv), ins, clock)

\* LinearEmulator::execute_instruction
LinearExecuteInstruction(reg, ins, regs, pcv, clock) ==
    LinearMatch(Dispatch(reg, ins), reg, ins, regs, pcv, clock)

\* ---------------------------------------------------------------- fetch_block
AddrOf(base, i) == Add32(base, U32(WORD_SIZE * i))

\* memory.segment(pc, None): the instruction words from pc to the end of the code
\* segment; nothing when pc is not the address of an instruction
Segment(imem, base, p) ==
    IF \E i \in 0..(Len(imem) - 1) : AddrOf(base, i) = p
    THEN SubSeq(imem, (CHOOSE j \in 0..(Len(imem) - 1) : AddrOf(base, j) = p) + 1, Len(imem))
    ELSE <<>>

Fetched(ok, err, cache, blk, miss) ==
    [ok |-> ok, err |-> err, cache |-> cache, block |-> blk, decoded |-> miss]

\* a vacant entry filled without the is_empty check
HarvardVacantNoEmptyCheck(cache, p, blk) ==
    Fetched(TRUE, NoError, cache @@ (p :> blk), (cache @@ (p :> blk))[p], TRUE)

\* HarvardEmulator::fetch_block on a vacant entry: blk is the decoded block
HarvardVacant(cache, p, blk) ==
    IF blk = <<>> THEN Fetched(FALSE, VMOutOfInstructions, cache, <<>>, TRUE)
    ELSE Fetched(TRUE, NoError, cache @@ (p :> blk), (cache @@ (p :> blk))[p], TRUE)

\* a fetch that decodes whether or not the entry is vacant
HarvardFetchAlwaysDecodes(cache, p, imem, base) ==
    HarvardVacant(cache, p, decode_until_end_of_a_block(Segment(imem, base, p)))

\* HarvardEmulator::fetch_block
HarvardFetchBlock(cache, p, imem, base) ==
    IF p \notin DOMAIN cache
    THEN HarvardVacant(cache, p, decode_until_end_of_a_block(Segment(imem, base, p)))
    ELSE Fetched(TRUE, NoError, cache, cache[p], FALSE)

\* a vacant entry that is filled before the block is looked at
LinearVacantInsertsFirst(cache, p, blk) ==
    IF blk = <<>> THEN Fetched(FALSE, VMOutOfInstructions, cache @@ (p :> blk), <<>>, TRUE)
    ELSE Fetched(TRUE, NoError, cache @@ (p :> blk), (cache @@ (p :> blk))[p], TRUE)

\* LinearEmulator::fetch_block on a vacant entry: blk is the decoded block
LinearVacant(cache, p, blk) ==
    IF blk = <<>> THEN Fetched(FALSE, VMOutOfInstructions, cache, <<>>, TRUE)
    ELSE Fetched(TRUE, NoError, cache @@ (p :> blk), (cache @@ (p :> blk))[p], TRUE)

\* LinearEmulator::fetch_block (instruction_index is the index add_fixed_ro returned,
\* so memory.segment(..)? is Ok)
LinearFetchBlock(cache, p, imem, base) ==
    IF p \notin DOMAIN cache
    THEN LinearVacant(cache, p, decode_until_end_of_a_block(Segment(imem, base, p)))
    ELSE Fetched(TRUE, NoError, cache, cache[p], FALSE)

\* ---------------------------------------------------------------- execute
Running == [ret |-> "running", err |-> NoError]
Returned(ret, err) == [ret |-> ret, err |-> err]

\* a loop that drops the error of an instruction and goes on
BlockNextDropsError(ok, i, n) == IF i < n THEN "continue" ELSE "return_ok"

\* execute_basic_block after instruction i of n: the `?` returns the error, the loop
\* goes on, or the function returns Ok after the last instruction
BlockNext(ok, i, n) ==
    IF ~ok THEN "return_err" ELSE IF i < n THEN "continue" ELSE "return_ok"

\* execute(): `fetch_block(..)?` then execute_basic_block
ExecuteAfterFetch(ok, err, blk) ==
    IF ~ok THEN [phase |-> "done", result |-> Returned("Err", err)]
    ELSE IF blk = <<>> THEN [phase |-> "fetch", result |-> Running]
    ELSE [phase |-> "exec", result |-> Running]

\* an execute() that returns Ok once a block has run
ExecuteReturnsAfterBlock(ret, err) ==
    IF ret = "return_err" THEN [phase |-> "done", result |-> Returned("Err", err)]
    ELSE [phase |-> "done", result |-> Returned("Ok", NoError)]

\* execute(): `execute_basic_block(..)?` then the next round of the loop
ExecuteAfterBlock(ret, err) ==
    IF ret = "return_err" THEN [phase |-> "done", result |-> Returned("Err", err)]
    ELSE [phase |-> "fetch", result |-> Running]

NoCall == [op |-> "none", ok |-> TRUE, err |-> NoError, pc_before |-> U32(0),
           pc_exec |-> U32(0), ins |-> <<>>, block |-> <<>>, decoded |-> FALSE,
           repeat |-> FALSE, arm |-> "", memory |-> "", clock_before |-> 0,
           block_pc |-> U32(0)]

EmptyMap == [x \in {} |-> <<>>]

BaseOf(k) == IF k = "harvard" THEN U32(4096) ELSE U32(136)

\* (pc - base_address) / WORD_SIZE for the address of an instruction
InstructionIndex(base, p) ==
    IF \E i \in 0..MaxLen : AddrOf(base, i) = p
    THEN CHOOSE i \in 0..MaxLen : AddrOf(base, i) = p
    ELSE 0 - 1

NoLayout == [program_start |-> 0, public_input_start |-> 0, public_input_end |-> 0,
             exit_code |-> 0, public_output_end |-> 0]

NoPass == [done |-> FALSE, result |-> Running, trace |-> <<>>, instructions |-> <<>>,
           registry |-> Registry({}, {}, {}), public_input |-> <<>>]

\* an emulator whose public input and output are not looked at
PassIdle ==
    /\ public_input = <<>>
    /\ input_memory = [base_address |-> 0, bytes |-> <<>>]
    /\ output_memory = [base_address |-> 0, len |-> 0]
    /\ io_words = <<0, 0>>
    /\ memory_layout = NoLayout
    /\ trace = <<>>
    /\ harvard_pass = NoPass

NoElements == [drawn |-> FALSE, channel |-> <<>>]

NoTable == [table |-> "none"]

NoConfig == [fri_config |-> [log_blowup_factor |-> 0]]

NoTwiddles == [log_size |-> 0]

NoComponent == [made |-> FALSE]

\* AllLookupElements::default()
LookupIdle ==
    /\ all_lookup_elements = EmptyMap
    /\ panicked = FALSE
    /\ inserted = <<>>

\* no call of Machine::prove
ProveIdle ==
    /\ prove_pc = "idle"
    /\ num_steps = 0
    /\ program = 0
    /\ log_size = 0
    /\ prover_traces = <<>>
    /\ finalized_trace = NoTable
    /\ lookup_elements = NoElements
    /\ interaction_trace = NoTable
    /\ prover_channel = <<>>
    /\ commitment_scheme = <<>>
    /\ backend_calls = 0
    /\ backend_outcome = "none"
    /\ prove_result = "none"
    /\ config = NoConfig
    /\ twiddles = NoTwiddles
    /\ component = NoComponent

NoStep == [some |-> FALSE]

NoExecution == [chip |-> "none"]

\* no row under the chips
ChipIdle ==
    /\ vm_step = NoStep
    /\ traces = <<>>
    /\ side_note = <<>>
    /\ execution_result = NoExecution
    /\ filled = <<>>
    /\ forged = "none"
    /\ row_idx = 0
    /\ written = <<>>

ProverIdle == LookupIdle /\ ProveIdle /\ ChipIdle

EmuInit(k, imem, reg) ==
    /\ kind = k
    /\ instruction_memory = imem
    /\ instruction_executor = reg
    /\ base_address = BaseOf(k)
    /\ pc = BaseOf(k)
    /\ registers = [r \in 0..31 |-> U32(0)]
    /\ global_clock = 1
    /\ basic_block_cache = EmptyMap
    /\ phase = "fetch"
    /\ basic_block = <<>>
    /\ idx = 1
    /\ bb_results = <<>>
    /\ results = <<>>
    /\ result = Running
    /\ last = NoCall
    /\ first_block = EmptyMap
    /\ executed = 0
    /\ block_transcript = <<>>
    /\ block_log = <<>>

DecIdle ==
    /\ slice = <<>>
    /\ out_block = <<>>
    /\ out_program = <<>>
    /\ decoded = {}

\* LinearEmulator { access_timestamps: HashMap::default(), .. }: no access made yet
MemIdle ==
    /\ access_timestamps = EmptyMap
    /\ memory_records = {}
    /\ mem_ops = [load_ops |-> {}, store_ops |-> {}]
    /\ ts_before = EmptyMap
    /\ hist = EmptyMap
    /\ hist_before = EmptyMap
    /\ order_outcomes = {}

Init ==
    /\ \E k \in {"harvard", "linear"}, imem \in SeqsUpTo(ProgWords, MaxLen), reg \in Registries :
          EmuInit(k, imem, reg)
    /\ DecIdle
    /\ MemIdle
    /\ PassIdle
    /\ ProverIdle

\* one call of fetch_block(pc) from execute()
FetchBlock ==
    /\ phase = "fetch"
    /\ \E f \in {IF kind = "harvard"
                 THEN HarvardFetchBlock(basic_block_cache, pc, instruction_memory, base_address)
                 ELSE LinearFetchBlock(basic_block_cache, pc, instruction_memory, base_address)} :
       \E nx \in {ExecuteAfterFetch(f.ok, f.err, f.block)} :
           /\ basic_block_cache' = f.cache
           /\ first_block' = IF f.ok /\ pc \notin DOMAIN first_block
                             THEN first_block @@ (pc :> f.block) ELSE first_block
           /\ basic_block' = f.block
           /\ idx' = 1
           /\ bb_results' = <<>>
           /\ phase' = nx.phase
           /\ result' = nx.result
           /\ last' = [NoCall EXCEPT !.op = "fetch", !.ok = f.ok, !.err = f.err,
                                     !.pc_before = pc, !.block = f.block,
                                     !.decoded = f.decoded,
                                     !.repeat = (pc \in DOMAIN first_block),
                                     !.clock_before = global_clock,
                                     !.block_pc = pc]
    /\ UNCHANGED <<kind, instruction_memory, base_address, pc, registers, global_clock,
                   instruction_executor, results, executed>>
    /\ UNCHANGED dec_vars
    /\ UNCHANGED mem_vars
    /\ UNCHANGED pass_vars
    /\ UNCHANGED prover_vars
    /\ UNCHANGED block_vars

\* one call of execute_instruction from the loop of execute_basic_block
ExecuteInstruction ==
    /\ phase = "exec"
    /\ idx <= Len(basic_block)
    /\ global_clock < MaxClock
    /\ \E ins \in {basic_block[idx]} :
       \E o \in {IF kind = "harvard"
                 THEN HarvardExecuteInstruction(instruction_executor, ins, registers, pc,
                                                global_clock)
                 ELSE LinearExecuteInstruction(instruction_executor, ins, registers, pc,
                                               global_clock)} :
       \E ret \in {BlockNext(o.ok, idx, Len(basic_block))} :
       \E nx \in {IF ret = "continue" THEN [phase |-> "exec", result |-> Running]
                  ELSE ExecuteAfterBlock(ret, o.err)} :
           /\ registers' = o.regs
           /\ pc' = o.pc
           /\ global_clock' = o.clock
           /\ idx' = idx + 1
           /\ bb_results' = IF ret = "continue" THEN Append(bb_results, o.res) ELSE <<>>
           /\ results' = IF ret = "return_ok" THEN results \o Append(bb_results, o.res)
                         ELSE results
           /\ phase' = nx.phase
           /\ result' = nx.result
           /\ executed' = IF o.ok THEN executed + 1 ELSE executed
           /\ trace' = IF o.ok THEN Append(trace, InstructionIndex(base_address, pc))
                        ELSE trace
           /\ last' = [NoCall EXCEPT !.op = "exec", !.ok = o.ok, !.err = o.err,
                                     !.pc_before = pc, !.pc_exec = o.pc_exec,
                                     !.ins = <<ins>>, !.arm = o.arm,
                                     !.memory = ArmMemory(kind, o.arm),
                                     !.clock_before = global_clock,
                                     !.block_pc = last.block_pc]
    /\ UNCHANGED <<kind, instruction_memory, base_address, basic_block_cache,
                   instruction_executor, basic_block, first_block>>
    /\ UNCHANGED dec_vars
    /\ UNCHANGED mem_vars
    /\ UNCHANGED <<public_input, input_memory, output_memory, io_words, memory_layout,
                   harvard_pass>>
    /\ UNCHANGED prover_vars
    /\ UNCHANGED block_vars

Next == FetchBlock \/ ExecuteInstruction

Spec == Init /\ [][Next]_vars

\* ---------------------------------------------------------------- dispatch
\* the opcodes of an addi, of an ecall and of the host's instruction
OverlayOpcodes == {DecodeWordBlock(w).opcode : w \in {ADDI_X1_X0_1, ECALL, DYN_5_4_3_2_1}}

\* registries in which each of the three lookups of an opcode succeeds or fails on its own
DispatchRegistries ==
    {Registry(BuiltinOpcodes \cup b, r, w) :
        b \in SUBSET {HostOpcode}, r \in SUBSET OverlayOpcodes, w \in SUBSET OverlayOpcodes}

\* programs of one instruction, a syscall that succeeds and a host instruction run twice
DispatchPrograms ==
    {<<w>> : w \in {ADDI_X1_X0_1, ECALL, DYN_5_4_3_2_1, ZERO_WORD}}
    \cup {<<ADDI_X17_X0_1025, ECALL>>, <<DYN_5_4_3_2_1, DYN_5_4_3_2_1>>}

InitDispatch ==
    /\ \E k \in {"harvard", "linear"}, imem \in DispatchPrograms, reg \in DispatchRegistries :
          EmuInit(k, imem, reg)
    /\ DecIdle
    /\ MemIdle
    /\ PassIdle
    /\ ProverIdle

SpecDispatch == InitDispatch /\ [][Next]_vars

\* ---------------------------------------------------------------- the decoders alone
InitDec ==
    /\ slice \in SeqsUpTo(DecWords, MaxLen)
    /\ out_block = <<>>
    /\ out_program = <<>>
    /\ decoded = {}
    /\ EmuInit("harvard", <<>>, Registry(BuiltinOpcodes, {}, {}))
    /\ MemIdle
    /\ PassIdle
    /\ ProverIdle

DecodeUntilEndOfABlock ==
    /\ "block" \notin decoded
    /\ out_block' = decode_until_end_of_a_block(slice)
    /\ decoded' = decoded \cup {"block"}
    /\ UNCHANGED <<slice, out_program>>
    /\ UNCHANGED emu_vars
    /\ UNCHANGED mem_vars
    /\ UNCHANGED pass_vars
    /\ UNCHANGED prover_vars
    /\ UNCHANGED block_vars

DecodeInstructions ==
    /\ "program" \notin decoded
    /\ out_program' = decode_instructions(slice)
    /\ decoded' = decoded \cup {"program"}
    /\ UNCHANGED <<slice, out_block>>
    /\ UNCHANGED emu_vars
    /\ UNCHANGED mem_vars
    /\ UNCHANGED pass_vars
    /\ UNCHANGED prover_vars
    /\ UNCHANGED block_vars

NextDec == DecodeUntilEndOfABlock \/ DecodeInstructions

SpecDec == InitDec /\ [][NextDec]_vars

\* ---------------------------------------------------------------- memory timestamps
\* address & !(WORD_SIZE / 2 - 1) as u32
half_aligned_address(address) == And32(address, <<Half - 1, Half - (WORD_SIZE \div 2)>>)

\* address & !(WORD_SIZE - 1) as u32
full_aligned_address(address) == And32(address, <<Half - 1, Half - WORD_SIZE>>)

Max(a, b) == IF a >= b THEN a ELSE b

\* *self.access_timestamps.get(address).unwrap_or(&0)
GetOr0(ts, address) == IF address \in DOMAIN ts THEN ts[address] ELSE 0

\* a byte access that looks at the exact and the word-aligned address only
PrevTimestampNoHalf(ts, size, address) ==
    CASE size = "Word" -> GetOr0(ts, address)
      [] OTHER -> Max(GetOr0(ts, address), GetOr0(ts, full_aligned_address(address)))

\* the `match size` of manage_timestamps
PrevTimestamp(ts, size, address) ==
    CASE size = "Byte" ->
           Max(GetOr0(ts, address),
               Max(GetOr0(ts, half_aligned_address(address)),
                   GetOr0(ts, full_aligned_address(address))))
      [] size = "HalfWord" ->
           Max(GetOr0(ts, address), GetOr0(ts, full_aligned_address(address)))
      [] OTHER -> GetOr0(ts, address)

\* an insert that keeps the timestamp an address already has
InsertTimestampKeepsOld(ts, address, clock) ==
    [a \in DOMAIN ts \cup {address} |-> IF a \in DOMAIN ts THEN ts[a] ELSE clock]

\* self.access_timestamps.insert(*address, self.executor.global_clock)
InsertTimestamp(ts, address, clock) ==
    [a \in DOMAIN ts \cup {address} |-> IF a = address THEN clock ELSE ts[a]]

\* LinearEmulator::manage_timestamps: the previous timestamp and the map afterwards
manage_timestamps(ts, size, address, clock) ==
    [prev |-> PrevTimestamp(ts, size, address), ts |-> InsertTimestamp(ts, address, clock)]

\* a LoadOp / StoreOp, by its size and address
MemOp(size, address) == [size |-> size, address |-> address]

\* op.as_record(global_clock, prev_timestamp)
AsRecord(op, access, clock, prev) ==
    [access |-> access, size |-> op.size, address |-> op.address,
     timestamp |-> clock, prev_timestamp |-> prev]

\* the body of `load_ops.iter().for_each(..)` / `store_ops.iter().for_each(..)`: m is what
\* manage_timestamps returned for op
RecordInsert(before, op, access, clock, m) ==
    [ts |-> m.ts,
     records |-> before.records \cup {AsRecord(op, access, clock, m.prev)}]

RecordStep(before, op, access, clock) ==
    RecordInsert(before, op, access, clock,
                 manage_timestamps(before.ts, op.size, op.address, clock))

\* for_each over a set of ops in the order the iterator yields them
RecordOps(order, access, start, clock) ==
    LET run[k \in 0..Len(order)] ==
            IF k = 0 THEN start ELSE RecordStep(run[k - 1], order[k], access, clock)
    IN  run[Len(order)]

\* LinearEmulator::execute_instruction after the match: the load ops, then the store ops
LinearRecords(load_order, store_order, ts, clock) ==
    RecordOps(store_order, "store",
              RecordOps(load_order, "load", [ts |-> ts, records |-> {}], clock), clock)

\* the orders in which the iterator of a HashSet can yield its elements
Orders(S) ==
    {o \in [1..Cardinality(S) -> S] : \A i, j \in 1..Cardinality(S) : i # j => o[i] # o[j]}

\* a data word of the linear memory and the aligned accesses inside it
DataWord == <<1, 0>>

AlignedOps ==
    {MemOp("Byte", Add32(DataWord, U32(off))) : off \in {2, 3}}
    \cup {MemOp("HalfWord", Add32(DataWord, U32(2))), MemOp("Word", DataWord)}

\* (load_ops, store_ops) of a load or store instruction: one op
LoadStoreOps ==
    {[load_ops |-> {op}, store_ops |-> {}] : op \in AlignedOps}
    \cup {[load_ops |-> {}, store_ops |-> {op}] : op \in AlignedOps}

\* (load_ops, store_ops) execute_syscall returns: what memory_read read and what
\* memory_write wrote, sets of ops
SyscallOps ==
    {[load_ops |-> L, store_ops |-> {}] : L \in {X \in SUBSET AlignedOps : Cardinality(X) <= 2}}
    \cup {[load_ops |-> {MemOp("Word", DataWord)}, store_ops |-> {MemOp("Word", DataWord)}]}

\* history: the clock of the most recent access of each size to each address
Touch(h, ops, clock) == [op \in DOMAIN h \cup ops |-> IF op \in ops THEN clock ELSE h[op]]

\* a load instruction, as the instruction behind a memory access
LW_INS == Instruction(Opcode(3, 2, NoneU8, "lw"), 0, 0, U32(0), "IType")

\* the results execute_instruction can have for the ops m: one for each order in which
\* the iterators of the two sets yield their elements
OrderOutcomes(m, ts, clock) ==
    {LinearRecords(load_order, store_order, ts, clock) :
         load_order \in Orders(m.load_ops), store_order \in Orders(m.store_ops)}

\* the part of LinearEmulator::execute_instruction after the match, for an instruction
\* whose executor returned the ops m
RecordInstruction(m) ==
    /\ \E outcomes \in {OrderOutcomes(m, access_timestamps, global_clock)} :
          /\ order_outcomes' = outcomes
          /\ \E r \in outcomes :
                /\ access_timestamps' = r.ts
                /\ memory_records' = r.records
    /\ mem_ops' = m
    /\ ts_before' = access_timestamps
    /\ hist' = Touch(hist, m.load_ops \cup m.store_ops, global_clock)
    /\ hist_before' = hist
    /\ pc' = PcStep(LW_INS, pc)
    /\ global_clock' = ClockTick(LW_INS, global_clock)
    /\ executed' = executed + 1
    /\ UNCHANGED <<kind, instruction_memory, base_address, registers, basic_block_cache,
                   instruction_executor, phase, basic_block, idx, bb_results, results,
                   result, last, first_block>>
    /\ UNCHANGED dec_vars
    /\ UNCHANGED pass_vars
    /\ UNCHANGED prover_vars
    /\ UNCHANGED block_vars

\* execute_instruction of a load or a store
LinearLoadStore ==
    /\ global_clock < MaxAccessClock
    /\ \E m \in LoadStoreOps : RecordInstruction(m)

\* execute_instruction of a system instruction
LinearSyscall ==
    /\ global_clock < MaxAccessClock
    /\ \E m \in SyscallOps : RecordInstruction(m)

InitMem ==
    /\ EmuInit("linear", <<>>, Registry(BuiltinOpcodes, {}, {}))
    /\ DecIdle
    /\ MemIdle
    /\ PassIdle
    /\ ProverIdle

NextMem == LinearLoadStore \/ LinearSyscall

SpecMem == InitMem /\ [][NextMem]_vars

\* ---------------------------------------------------------------- the two passes
\* u32::to_le_bytes of a word
WordBytes(w) == <<w[2] % 256, w[2] \div 256, w[1] % 256, w[1] \div 256>>

\* (len as u32).to_le_bytes()
to_le_bytes(n) == WordBytes(U32(n))

\* FixedMemory::from_bytes(base_address, bytes)
FromBytes(base, bytes) == [base_address |-> base, bytes |-> bytes]

\* FixedMemory::segment_bytes(start, None): the bytes from start to the end
SegmentBytes(mem, start) ==
    SubSeq(mem.bytes, start - mem.base_address + 1, Len(mem.bytes))

\* [&len_bytes.to_le_bytes()[..], public_input].concat()
PublicInputWithLen(input) == to_le_bytes(Len(input)) \o input

\* a from_harvard that hands the whole input memory to from_elf
HarvardPublicInputWithLength(mem) == SegmentBytes(mem, 0)

\* from_harvard: input_memory.segment_bytes(WORD_SIZE, None), the input without the
\* length word
HarvardPublicInput(mem) == SegmentBytes(mem, WORD_SIZE)

\* word_align!
word_align(n) == ((n + WORD_SIZE - 1) \div WORD_SIZE) * WORD_SIZE

\* HarvardEmulator::get_output after VMExited(code): the exit code is the first word of
\* the output; the programs of the model write no other output
HarvardGetOutput(res) == WordBytes(res.err.code)

LW == Opcode(3, 2, NoneU8, "lw")

SW == Opcode(35, 2, NoneU8, "sw")

\* a field of an opcode that may be None
FieldOr0(v) == IF v = NoneU8 THEN 0 ELSE v

\* the low half of an encoding: major opcode, bits 7..11, funct3 and bit 0 of rs1
EncodeLow(opcode, bits7, rs1) ==
    opcode.raw + bits7 * 2 ^ RD_SHIFT + FieldOr0(opcode.fn3) * 2 ^ FN3_SHIFT
    + (rs1 % 2) * 2 ^ RS1_SHIFT

\* the high half: the other bits of rs1, bits 20..24 and bits 25..31
EncodeHigh(rs1, bits20, bits25) ==
    rs1 \div 2 + bits20 * 2 ^ (RS2_SHIFT - 16) + bits25 * 2 ^ (FN7_SHIFT - 16)

\* Instruction::encode for the R, I and S formats
Encode(ins) ==
    CASE ins.ins_type = "IType" ->
           <<EncodeHigh(ins.op_b, (ins.op_c[2] % 4096) % 32, (ins.op_c[2] % 4096) \div 32),
             EncodeLow(ins.opcode, ins.op_a, ins.op_b)>>
      [] ins.ins_type = "SType" ->
           <<EncodeHigh(ins.op_a, ins.op_b, (ins.op_c[2] % 4096) \div 32),
             EncodeLow(ins.opcode, (ins.op_c[2] % 4096) % 32, ins.op_a)>>
      [] OTHER ->
           <<EncodeHigh(ins.op_b, ins.op_c[2] % 32, FieldOr0(ins.opcode.fn7)),
             EncodeLow(ins.opcode, ins.op_a, ins.op_b)>>

\* riscv::decode_instruction: one word, the custom class included
decode_instruction(w) == DecodeWordBlock(w)

is_read_input(reg, opcode) == opcode \in reg.read_input

is_write_output(reg, opcode) == opcode \in reg.write_output

WithOpcode(ins, opcode) == [ins EXCEPT !.opcode = opcode]

\* a rewrite that leaves the write_output instructions as they are
RewriteDecodedLoadsOnly(reg, instr, decoded_ins) ==
    IF is_read_input(reg, decoded_ins.opcode) THEN Encode(WithOpcode(decoded_ins, LW))
    ELSE instr

\* the closure of from_harvard's map, given the decoded instruction
RewriteDecoded(reg, instr, decoded_ins) ==
    IF is_read_input(reg, decoded_ins.opcode) THEN Encode(WithOpcode(decoded_ins, LW))
    ELSE IF is_write_output(reg, decoded_ins.opcode)
    THEN Encode(WithOpcode(decoded_ins, SW))
    ELSE instr

\* elf.instructions.iter().map(..).collect()
RewriteImage(reg, instructions) ==
    [i \in 1..Len(instructions) |->
        RewriteDecoded(reg, instructions[i], decode_instruction(instructions[i]))]

\* where the public input segment of a layout can start
InputStarts == {256, 512}

\* MemoryStats::create_optimized_layout: the layouts from_elf accepts for an input of
\* input_len bytes and an output of output_len bytes after the exit code
create_optimized_layout(input_len, output_len) ==
    {[program_start |-> BaseOf("linear")[2],
      public_input_start |-> start,
      public_input_end |-> start + word_align(input_len + WORD_SIZE),
      exit_code |-> start + word_align(input_len + WORD_SIZE),
      public_output_end |-> start + word_align(input_len + WORD_SIZE) + WORD_SIZE
                            + output_len] : start \in InputStarts}

\* HarvardEmulator::from_elf: the input and output memories and the words at 0x80
HarvardIo(input) ==
    /\ public_input = input
    /\ input_memory = FromBytes(0, PublicInputWithLen(input))
    /\ output_memory = [base_address |-> 0, len |-> 0]
    /\ io_words = <<0, 0>>
    /\ memory_layout = NoLayout

\* LinearEmulator::from_elf
LinearFromElf(layout, instructions, input) ==
    /\ kind' = "linear"
    /\ instruction_memory' = instructions
    /\ instruction_executor' = Registry(BuiltinOpcodes, {}, {})
    /\ base_address' = U32(layout.program_start)
    /\ pc' = U32(layout.program_start)
    /\ registers' = [r \in 0..31 |-> U32(0)]
    /\ global_clock' = 1
    /\ basic_block_cache' = EmptyMap
    /\ phase' = "fetch"
    /\ basic_block' = <<>>
    /\ idx' = 1
    /\ bb_results' = <<>>
    /\ results' = <<>>
    /\ result' = Running
    /\ last' = NoCall
    /\ first_block' = EmptyMap
    /\ executed' = 0
    /\ trace' = <<>>
    /\ public_input' = input
    /\ input_memory' = FromBytes(layout.public_input_start, PublicInputWithLen(input))
    /\ output_memory' = [base_address |-> layout.exit_code,
                         len |-> layout.public_output_end - layout.exit_code]
    /\ io_words' = <<layout.public_input_start, layout.exit_code>>
    /\ memory_layout' = layout

\* LinearEmulator::from_harvard, called once the first pass has exited
FromHarvard ==
    /\ kind = "harvard"
    /\ phase = "done"
    /\ result.err.name = "VMExited"
    /\ \E input \in {HarvardPublicInput(input_memory)} :
       \E layout \in create_optimized_layout(Len(input),
                                             Len(HarvardGetOutput(result)) - WORD_SIZE) :
           LinearFromElf(layout, RewriteImage(instruction_executor, instruction_memory),
                         input)
    /\ harvard_pass' = [done |-> TRUE, result |-> result, trace |-> trace,
                        instructions |-> instruction_memory,
                        registry |-> instruction_executor, public_input |-> public_input]
    /\ UNCHANGED dec_vars
    /\ UNCHANGED mem_vars
    /\ UNCHANGED prover_vars
    /\ UNCHANGED block_vars

\* the public inputs given to HarvardEmulator::from_elf: the first bytes of a fixed string
InputBytes == <<255, 1, 2, 3, 4, 5, 6, 7>>

PublicInputs == {SubSeq(InputBytes, 1, n) : n \in 0..MaxInput}

\* words of the program images the two passes run
PassWords == {ADDI_X1_X0_1, ADDI_X17_X0_513, BEQ_X0_X1_8, ECALL, DYN_5_4_3_2_1}

InitPass ==
    /\ \E imem \in SeqsUpTo(PassWords, MaxLen), reg \in Registries :
          EmuInit("harvard", imem, reg)
    /\ \E input \in PublicInputs : HarvardIo(input)
    /\ trace = <<>>
    /\ harvard_pass = NoPass
    /\ DecIdle
    /\ MemIdle
    /\ ProverIdle

NextPass == FetchBlock \/ ExecuteInstruction \/ FromHarvard

SpecPass == InitPass /\ [][NextPass]_vars

\* ---------------------------------------------------------------- lookup elements
\* the types of register_relation!'s enum RelationVariant
RelationTypes ==
    <<"BitOpLookupElements", "LoadStoreLookupElements", "ProgramCheckLookupElements",
      "RegisterCheckLookupElements", "Range8LookupElements", "Range16LookupElements",
      "Range32LookupElements", "Range128LookupElements", "Range256LookupElements">>

\* an identifier that is the same for every type
TypeIdOfEnum(T) == 0

\* TypeId::of::<T>(): one identifier per type
TypeIdOf(T) == CHOOSE i \in DOMAIN RelationTypes : RelationTypes[i] = T

\* impl From<$name> for RelationVariant
IntoVariant(T, relation) == [variant |-> T, relation |-> relation]

\* HashMap::insert: the map afterwards, and whether the key had a value (is_some)
HashMapInsert(map, key, value) ==
    [map |-> [k \in DOMAIN map \cup {key} |-> IF k = key THEN value ELSE map[k]],
     is_some |-> key \in DOMAIN map]

\* an insert that never panics
InsertPanicsNever(is_some) == FALSE

\* if self.0.insert(..).is_some() { panic!("attempt to insert duplicate relation") }
InsertPanics(is_some) == is_some

\* the lookup elements a relation can hold
Relations == {1, 2}

\* AllLookupElements::is_empty
is_empty(map) == DOMAIN map = {}

\* __UnwrapRef::unwrap_ref for T: the inner value of T's own variant, a panic on any other
unwrap_ref(T, it) ==
    IF it.variant = T THEN [panic |-> "", value |-> it.relation]
    ELSE [panic |-> "called unwrap on", value |-> 0]

\* AllLookupElements::as_ref::<T>()
as_ref(map, T) ==
    IF TypeIdOf(T) \notin DOMAIN map
    THEN [panic |-> "lookup elements weren't initialized", value |-> 0]
    ELSE unwrap_ref(T, map[TypeIdOf(T)])

\* AllLookupElements::insert::<T>(relation)
Insert ==
    /\ ~panicked
    /\ Len(inserted) < MaxInserts
    /\ \E i \in DOMAIN RelationTypes, relation \in Relations :
       \E r \in {HashMapInsert(all_lookup_elements, TypeIdOf(RelationTypes[i]),
                               IntoVariant(RelationTypes[i], relation))} :
           /\ all_lookup_elements' = r.map
           /\ panicked' = InsertPanics(r.is_some)
           /\ inserted' = Append(inserted, [type |-> RelationTypes[i],
                                            relation |-> relation])
    /\ UNCHANGED <<emu_vars, dec_vars, mem_vars, pass_vars, prove_vars, chip_vars, block_vars>>

InitLookup ==
    /\ EmuInit("harvard", <<>>, Registry(BuiltinOpcodes, {}, {}))
    /\ DecIdle
    /\ MemIdle
    /\ PassIdle
    /\ ProverIdle

NextLookup == Insert

SpecLookup == InitLookup /\ [][NextLookup]_vars

\* ---------------------------------------------------------------- Machine::prove
\* a next_power_of_two that is strictly above its argument
PowerAbove(n) == CHOOSE q \in {2 ^ k : k \in 0..MaxSteps} :
                     /\ q > n
                     /\ \A k \in 0..MaxSteps : 2 ^ k > n => 2 ^ k >= q

\* usize::next_power_of_two
next_power_of_two(n) == CHOOSE q \in {2 ^ k : k \in 0..MaxSteps} :
                            /\ q >= n
                            /\ \A k \in 0..MaxSteps : 2 ^ k >= n => 2 ^ k >= q

\* trailing_zeros of a power of two
trailing_zeros(q) == CHOOSE k \in 0..MaxSteps : 2 ^ k = q

LOG_CONSTRAINT_DEGREE == 2

\* the values PcsConfig::default().fri_config.log_blowup_factor can have
LogBlowupFactors == {1, 2}

\* PcsConfig { fri_config: FriConfig { log_blowup_factor, .. }, .. }
PcsConfig(blowup) == [fri_config |-> [log_blowup_factor |-> blowup]]

\* SimdBackend::precompute_twiddles(CanonicCoset::new(log_size + LOG_CONSTRAINT_DEGREE
\* + config.fri_config.log_blowup_factor).circle_domain().half_coset)
PrecomputeTwiddles(log, cfg) ==
    [log_size |-> log + LOG_CONSTRAINT_DEGREE + cfg.fri_config.log_blowup_factor]

\* MachineEval::new(log_n_rows, lookup_elements)
MachineEval(log_n_rows, elements) ==
    [made |-> TRUE, log_n_rows |-> log_n_rows, lookup_elements |-> elements]

\* MachineEval::max_constraint_log_degree_bound
max_constraint_log_degree_bound(eval) == eval.log_n_rows + LOG_CONSTRAINT_DEGREE

\* TracesBuilder::num_rows
NumRows(log) == 2 ^ log

\* iter_program_steps: the steps of the trace, then padding up to the number of rows
ProgramStep(row, steps) == IF row < steps THEN "step" ELSE "padding"

\* PreprocessedTraces::new(log_size)
PreprocessedTraces(log) == [table |-> "preprocessed", log_size |-> log]

\* ProgramTraces::new(log_size, program)
ProgramTraces(log, prog) == [table |-> "program", log_size |-> log, program |-> prog]

\* prover_traces.finalize()
Finalize(rows) == [table |-> "main", rows |-> rows]

\* LookupElements::draw(channel): the challenges are a function of what the channel
\* has absorbed so far
Draw(channel) == [drawn |-> TRUE, channel |-> channel]

\* what a channel is after a draw
AfterDraw(channel) == Append(channel, [op |-> "draw", of |-> "lookup_elements"])

\* C::fill_interaction_trace(&finalized_trace, &preprocessed_trace, &program_traces,
\* &lookup_elements)
FillInteractionTrace(main, elements) ==
    [table |-> "interaction", main |-> main, lookup_elements |-> elements]

\* a commit that leaves the commitment scheme without the tree
CommitTreeDropped(scheme, table) == scheme

\* tree_builder.extend_evals(table); tree_builder.commit(..): the tree joins the scheme
CommitTree(scheme, table) == Append(scheme, table)

\* tree_builder.commit(prover_channel): the root of the tree is mixed into the channel
MixRoot(channel, table) == Append(channel, [op |-> "mix_root", of |-> table.table])

\* what the backend's prove can return
BackendOutcomes == {"Ok", "ConstraintsNotSatisfied"}

\* a prove that returns Ok whatever the backend returned
ProveReturnsOk(outcome) == "Ok(proof)"

\* `let proof = prove(..)?; Ok(proof)`
ProveReturns(outcome) ==
    IF outcome = "Ok" THEN "Ok(proof)" ELSE outcome

ProveUnchanged ==
    UNCHANGED <<emu_vars, dec_vars, mem_vars, pass_vars, lookup_vars, chip_vars, block_vars,
                config, twiddles>>

\* lines 116-124: one round of the loop over the program steps
FillMainTrace ==
    /\ prove_pc = "fill_main_trace"
    /\ Len(prover_traces) < NumRows(log_size)
    /\ prover_traces' = Append(prover_traces, ProgramStep(Len(prover_traces), num_steps))
    /\ UNCHANGED <<prove_pc, num_steps, program, log_size, finalized_trace, lookup_elements,
                   interaction_trace, prover_channel, commitment_scheme, backend_calls,
                   backend_outcome, prove_result>>
    /\ UNCHANGED component
    /\ ProveUnchanged

\* line 125, after the loop
FinalizeTrace ==
    /\ prove_pc = "fill_main_trace"
    /\ Len(prover_traces) = NumRows(log_size)
    /\ finalized_trace' = Finalize(prover_traces)
    /\ prove_pc' = "draw"
    /\ UNCHANGED <<num_steps, program, log_size, prover_traces, lookup_elements,
                   interaction_trace, prover_channel, commitment_scheme, backend_calls,
                   backend_outcome, prove_result>>
    /\ UNCHANGED component
    /\ ProveUnchanged

\* line 127
DrawLookupElements ==
    /\ prove_pc = "draw"
    /\ lookup_elements' = Draw(prover_channel)
    /\ prover_channel' = AfterDraw(prover_channel)
    /\ prove_pc' = "fill_interaction_trace"
    /\ UNCHANGED <<num_steps, program, log_size, prover_traces, finalized_trace,
                   interaction_trace, commitment_scheme, backend_calls, backend_outcome,
                   prove_result>>
    /\ UNCHANGED component
    /\ ProveUnchanged

\* lines 128-133
FillInteraction ==
    /\ prove_pc = "fill_interaction_trace"
    /\ interaction_trace' = FillInteractionTrace(finalized_trace, lookup_elements)
    /\ prove_pc' = "commit_preprocessed"
    /\ UNCHANGED <<num_steps, program, log_size, prover_traces, finalized_trace,
                   lookup_elements, prover_channel, commitment_scheme, backend_calls,
                   backend_outcome, prove_result>>
    /\ UNCHANGED component
    /\ ProveUnchanged

\* one tree_builder: extend_evals(table), commit(prover_channel)
Commit(at, table, then) ==
    /\ prove_pc = at
    /\ commitment_scheme' = CommitTree(commitment_scheme, table)
    /\ prover_channel' = MixRoot(prover_channel, table)
    /\ prove_pc' = then
    /\ UNCHANGED <<num_steps, program, log_size, prover_traces, finalized_trace,
                   lookup_elements, interaction_trace, backend_calls, backend_outcome,
                   prove_result>>
    /\ UNCHANGED component
    /\ ProveUnchanged

\* lines 135-138
CommitPreprocessed ==
    Commit("commit_preprocessed", PreprocessedTraces(log_size), "commit_main")

\* lines 140-143
CommitMain == Commit("commit_main", finalized_trace, "commit_interaction")

\* lines 145-147
CommitInteraction == Commit("commit_interaction", interaction_trace, "commit_program")

\* lines 150-153
CommitProgram == Commit("commit_program", ProgramTraces(log_size, program), "prove")

\* lines 155-165
BackendProve ==
    /\ prove_pc = "prove"
    /\ \E outcome \in BackendOutcomes :
          /\ backend_outcome' = outcome
          /\ prove_result' = ProveReturns(outcome)
    /\ component' = MachineEval(log_size, lookup_elements)
    /\ backend_calls' = backend_calls + 1
    /\ prove_pc' = "returned"
    /\ UNCHANGED <<num_steps, program, log_size, prover_traces, finalized_trace,
                   lookup_elements, interaction_trace, prover_channel, commitment_scheme>>
    /\ ProveUnchanged

\* Machine::prove(trace, program), up to the loop that fills the main trace
InitProve ==
    /\ EmuInit("harvard", <<>>, Registry(BuiltinOpcodes, {}, {}))
    /\ DecIdle
    /\ MemIdle
    /\ PassIdle
    /\ LookupIdle
    /\ ChipIdle
    /\ num_steps \in 0..MaxSteps
    /\ program \in 1..MaxLen
    /\ log_size = trailing_zeros(next_power_of_two(num_steps))
    /\ \E blowup \in LogBlowupFactors : config = PcsConfig(blowup)
    /\ twiddles = PrecomputeTwiddles(log_size, config)
    /\ component = NoComponent
    /\ prove_pc = "fill_main_trace"
    /\ prover_traces = <<>>
    /\ finalized_trace = NoTable
    /\ lookup_elements = NoElements
    /\ interaction_trace = NoTable
    /\ prover_channel = <<>>
    /\ commitment_scheme = <<>>
    /\ backend_calls = 0
    /\ backend_outcome = "none"
    /\ prove_result = "none"

NextProve ==
    \/ FillMainTrace
    \/ FinalizeTrace
    \/ DrawLookupElements
    \/ FillInteraction
    \/ CommitPreprocessed
    \/ CommitMain
    \/ CommitInteraction
    \/ CommitProgram
    \/ BackendProve

SpecProve == InitProve /\ [][NextProve]_vars

\* ---------------------------------------------------------------- instruction chips
\* prover/src/chips/instructions/bgeu.rs (BgeuChip) and prover/src/machine2/chips/slt.rs
\* (SltChip).  A Word is the sequence of its four byte limbs, least significant first;
\* a cell of the trace is an element of the base field of the backend, a number in
\* 0 .. P-1.
P == 2147483647

\* E::F::from(n)
F(n) == n % P

\* x + y in the field
FAdd(x, y) == ((x - P) + y) % P

\* x - y in the field
FSub(x, y) == (x - y) % P

\* x * y in the field, by doubling: the product of two cells does not fit a machine integer
RECURSIVE MulBy(_, _)
MulBy(x, y) ==
    IF y = 0 THEN 0
    ELSE CHOOSE r \in {FAdd(FAdd(h, h), IF y % 2 = 1 THEN x ELSE 0) : h \in {MulBy(x, y \div 2)}} :
             TRUE

FMul(x, y) == IF x < y THEN MulBy(y, x) ELSE MulBy(x, y)

\* the borrow out of limb i of x - y (limbs 1..4, no borrow into limb 1)
RECURSIVE BorrowOut(_, _, _)
BorrowOut(x, y, i) ==
    IF i = 0 THEN 0
    ELSE IF x[i] - y[i] - BorrowOut(x, y, i - 1) < 0 THEN 1 ELSE 0

\* sub::subtract_with_borrow(x, y): the limbs of x - y and the borrow out of every limb
subtract_with_borrow(x, y) ==
    [diff_bytes  |-> [i \in 1..WORD_SIZE |-> (x[i] - y[i] - BorrowOut(x, y, i - 1)) % 256],
     borrow_bits |-> [i \in 1..WORD_SIZE |-> BorrowOut(x, y, i)]]

\* the carry out of limb i of x + y
RECURSIVE CarryOut(_, _, _)
CarryOut(x, y, i) ==
    IF i = 0 THEN 0
    ELSE (x[i] + y[i] + CarryOut(x, y, i - 1)) \div 256

\* add::add_with_carries(x, y): the limbs of x + y and the carry out of every limb
add_with_carries(x, y) ==
    [sum_bytes  |-> [i \in 1..WORD_SIZE |-> (x[i] + y[i] + CarryOut(x, y, i - 1)) % 256],
     carry_bits |-> [i \in 1..WORD_SIZE |-> CarryOut(x, y, i)]]

\* ProgramStep::get_value_a, get_value_b, get_value_c().0: the operands as Words
get_value_a(step) == WordBytes(step.value_a)

get_value_b(step) == WordBytes(step.value_b)

get_value_c(step) == WordBytes(step.value_c)

\* ProgramStep::get_sgn_b, get_sgn_c: the top bit of the operand
get_sgn_b(step) == get_value_b(step)[WORD_SIZE] >= 128

get_sgn_c(step) == get_value_c(step)[WORD_SIZE] >= 128

\* an execute that adds the immediate when the borrow is set and 4 when it is not
BgeuExecuteInverted(step) ==
    LET sub == subtract_with_borrow(get_value_a(step), get_value_b(step))
        add == IF sub.borrow_bits[4] = 1
               THEN add_with_carries(WordBytes(step.pc), get_value_c(step))
               ELSE add_with_carries(WordBytes(step.pc), to_le_bytes(4))
    IN  [chip        |-> "bgeu",
         diff_bytes  |-> sub.diff_bytes,
         borrow_bits |-> sub.borrow_bits,
         pc_next     |-> add.sum_bytes,
         carry_bits  |-> add.carry_bits]

\* BgeuChip::execute
BgeuExecute(step) ==
    LET sub == subtract_with_borrow(get_value_a(step), get_value_b(step))
        add == IF sub.borrow_bits[4] = 1
               THEN add_with_carries(WordBytes(step.pc), to_le_bytes(4))
               ELSE add_with_carries(WordBytes(step.pc), get_value_c(step))
    IN  [chip        |-> "bgeu",
         diff_bytes  |-> sub.diff_bytes,
         borrow_bits |-> sub.borrow_bits,
         pc_next     |-> add.sum_bytes,
         carry_bits  |-> add.carry_bits]

\* SubChip::execute: value_b - value_c with its borrows
SubExecute(step) == subtract_with_borrow(get_value_b(step), get_value_c(step))

\* a result that compares the operands as unsigned integers
SltResultUnsigned(sgn_b, sgn_c, ltu) == <<ltu, 0, 0, 0>>

\* the result of SltChip::execute from the two signs and the top borrow
SltResult(sgn_b, sgn_c, ltu) ==
    IF sgn_b = sgn_c THEN <<ltu, 0, 0, 0>>
    ELSE IF sgn_c THEN <<0, 0, 0, 0>>
    ELSE <<1, 0, 0, 0>>

\* SltChip::execute
SltExecute(step) ==
    LET sub == SubExecute(step)
    IN  [chip        |-> "slt",
         borrow_bits |-> sub.borrow_bits,
         diff_bytes  |-> sub.diff_bytes,
         result      |-> SltResult(get_sgn_b(step), get_sgn_c(step), sub.borrow_bits[4]),
         value_a_effective_flag |-> TRUE]


\* the columns the two chips read or write, with the number of cells of each
Columns == {"ValueA", "ValueB", "ValueC", "Pc", "PcNext", "Helper1", "Helper2", "Helper3",
            "BorrowFlag", "CarryFlag", "SgnB", "SgnC", "ValueAEffective", "IsBgeu", "IsSlt"}

ColumnSize(col) == IF col \in {"SgnB", "SgnC", "IsBgeu", "IsSlt"} THEN 1 ELSE WORD_SIZE

\* a bool as a cell
BoolCell(b) == IF b THEN 1 ELSE 0

\* the row before the two chips run: the CPU chip has written the operands, the pc and
\* the selectors of the step; every other cell holds what the row held before
CpuRow(step, prior) ==
    [col \in Columns |->
        CASE col = "ValueB" -> IF step.some THEN get_value_b(step) ELSE <<0, 0, 0, 0>>
          [] col = "ValueC" -> IF step.some THEN get_value_c(step) ELSE <<0, 0, 0, 0>>
          [] col = "Pc"     -> IF step.some THEN WordBytes(step.pc) ELSE <<0, 0, 0, 0>>
          [] col = "IsBgeu" -> <<BoolCell(step.some /\ step.opcode = "BGEU")>>
          [] col = "IsSlt"  -> <<BoolCell(step.some /\ step.opcode \in {"SLT", "SLTI"})>>
          [] OTHER          -> [i \in 1..ColumnSize(col) |-> prior]]

\* TracesBuilder::fill_columns(row_idx, value, col), on the row
fill_columns(row, value, col) == [row EXCEPT ![col] = value]

\* a BgeuChip::fill_main_trace that writes whatever the step is
BgeuFillAlways(row, step) ==
    IF ~step.some THEN [row EXCEPT !["Helper1"] = <<0, 0, 0, 0>>]
    ELSE [row EXCEPT !["Helper1"] = get_value_a(step), !["ValueA"] = get_value_a(step)]

\* a fill_main_trace that does not write the carries of pc_next
BgeuFillNoCarry(row, step) ==
    IF ~step.some THEN row
    ELSE IF step.opcode # "BGEU" THEN row
    ELSE [row EXCEPT !["Helper1"] = BgeuExecute(step).diff_bytes,
                     !["BorrowFlag"] = BgeuExecute(step).borrow_bits,
                     !["ValueA"] = get_value_a(step),
                     !["PcNext"] = BgeuExecute(step).pc_next]

\* one call traces.fill_columns(row_idx, value, col)
Write(col, value) == [col |-> col, value |-> value]

\* the calls in the order they are made, applied to the row
ApplyWrites(row, writes) ==
    LET run[k \in 0..Len(writes)] ==
            IF k = 0 THEN row ELSE fill_columns(run[k - 1], writes[k].value, writes[k].col)
    IN  run[Len(writes)]

\* a fill_main_trace that fills the diff bytes a second time at its end
BgeuWritesDiffTwice(step) ==
    IF ~step.some THEN <<>>
    ELSE IF step.opcode # "BGEU" THEN <<>>
    ELSE <<Write("Helper1", BgeuExecute(step).diff_bytes),
           Write("BorrowFlag", BgeuExecute(step).borrow_bits),
           Write("ValueA", get_value_a(step)),
           Write("PcNext", BgeuExecute(step).pc_next),
           Write("CarryFlag", BgeuExecute(step).carry_bits),
           Write("Helper1", BgeuExecute(step).diff_bytes)>>

\* BgeuChip::fill_main_trace: the fill_columns calls it makes, in order
BgeuWrites(step) ==
    IF ~step.some THEN <<>>
    ELSE IF step.opcode # "BGEU" THEN <<>>
    ELSE <<Write("Helper1", BgeuExecute(step).diff_bytes),
           Write("BorrowFlag", BgeuExecute(step).borrow_bits),
           Write("ValueA", get_value_a(step)),
           Write("PcNext", BgeuExecute(step).pc_next),
           Write("CarryFlag", BgeuExecute(step).carry_bits)>>

\* BgeuChip::fill_main_trace, on the row
BgeuFill(row, step) == ApplyWrites(row, BgeuWrites(step))

\* a helper that keeps the sign bit
KeepTopBit(word) == word

\* helper_b[WORD_SIZE - 1] &= 0x7f
ClearTopBit(word) == [word EXCEPT ![WORD_SIZE] = word[WORD_SIZE] % 128]

\* SltChip::fill_main_trace: the fill_columns calls it makes, in order, and the
\* fill_effective_columns call (value_a_effective_flag is set)
SltWrites(step) ==
    IF ~step.some THEN <<>>
    ELSE IF step.opcode \notin {"SLT", "SLTI"} THEN <<>>
    ELSE <<Write("Helper2", ClearTopBit(get_value_b(step))),
           Write("Helper3", ClearTopBit(get_value_c(step))),
           Write("SgnB", <<BoolCell(get_sgn_b(step))>>),
           Write("SgnC", <<BoolCell(get_sgn_c(step))>>),
           Write("Helper1", SltExecute(step).diff_bytes),
           Write("CarryFlag", SltExecute(step).borrow_bits),
           Write("ValueA", SltExecute(step).result),
           Write("ValueAEffective", SltExecute(step).result)>>

\* SltChip::fill_main_trace, on the row; the step is never padding in machine2, and a
\* padding row is treated as a step of another opcode
SltFill(row, step) == ApplyWrites(row, SltWrites(step))

\* a borrow constraint that leaves out the borrow of the limb below
BgeuBorrowNoChain(row, i) ==
    FMul(row["IsBgeu"][1],
         FAdd(FSub(FSub(row["ValueA"][i], row["ValueB"][i]), row["Helper1"][i]),
              FMul(row["BorrowFlag"][i], F(256))))

\* BgeuChip::add_constraints: the borrow-chain constraint of limb i
BgeuBorrowConstraint(row, i) ==
    FMul(row["IsBgeu"][1],
         FSub(FAdd(FSub(FSub(row["ValueA"][i], row["ValueB"][i]), row["Helper1"][i]),
                   FMul(row["BorrowFlag"][i], F(256))),
              IF i = 1 THEN 0 ELSE row["BorrowFlag"][i - 1]))

\* BgeuChip::add_constraints: the pc_next constraint of limb i, ltu_flag = borrow_bits[3]
BgeuPcConstraint(row, i) ==
    FMul(row["IsBgeu"][1],
         FSub(FSub(FAdd(FAdd(FAdd(FMul(FSub(1, row["BorrowFlag"][4]), row["ValueC"][i]),
                                  IF i = 1 THEN FMul(row["BorrowFlag"][4], F(4)) ELSE 0),
                             row["Pc"][i]),
                        IF i = 1 THEN 0 ELSE row["CarryFlag"][i - 1]),
                   FMul(row["CarryFlag"][i], F(256))),
              row["PcNext"][i]))

\* BgeuChip::add_constraints: the eight constraints in the order they are added
BgeuConstraints(row) ==
    [k \in 1..8 |-> IF k <= 4 THEN BgeuBorrowConstraint(row, k)
                    ELSE BgeuPcConstraint(row, k - 4)]

\* SltChip::add_constraints: the borrow-chain constraint of limb i
SltBorrowConstraint(row, i) ==
    FMul(row["IsSlt"][1],
         FSub(FSub(row["Helper1"][i], FMul(row["CarryFlag"][i], F(256))),
              FSub(FSub(row["ValueB"][i], row["ValueC"][i]),
                   IF i = 1 THEN 0 ELSE row["CarryFlag"][i - 1])))

\* a constraint on value_a that is not multiplied by the selector
SltResultUngated(row, i) == row["ValueA"][i]

\* SltChip::add_constraints: the constraint on limb i of value_a
SltResultConstraint(row, i) ==
    IF i = 1
    THEN FMul(row["IsSlt"][1],
              FSub(FAdd(FMul(row["SgnB"][1], FSub(1, row["SgnC"][1])),
                        FMul(row["CarryFlag"][4],
                             FAdd(FMul(row["SgnB"][1], row["SgnC"][1]),
                                  FMul(FSub(1, row["SgnB"][1]), FSub(1, row["SgnC"][1]))))),
                   row["ValueA"][1]))
    ELSE FMul(row["IsSlt"][1], row["ValueA"][i])

\* a sign decomposition whose sign bit weighs 1 instead of 2^7
SltSignNoWeight(row, sgn, helper, value) ==
    FMul(row["IsSlt"][1],
         FSub(FAdd(row[sgn][1], row[helper][WORD_SIZE]), row[value][WORD_SIZE]))

\* SltChip::add_constraints: the sign decomposition of the top limb of an operand
SltSignConstraint(row, sgn, helper, value) ==
    FMul(row["IsSlt"][1],
         FSub(FAdd(FMul(F(128), row[sgn][1]), row[helper][WORD_SIZE]), row[value][WORD_SIZE]))

\* SltChip::add_constraints: the ten constraints in the order they are added
SltConstraints(row) ==
    [k \in 1..10 |-> IF k <= 4 THEN SltBorrowConstraint(row, k)
                     ELSE IF k <= 8 THEN SltResultConstraint(row, k - 4)
                     ELSE IF k = 9 THEN SltSignConstraint(row, "SgnB", "Helper2", "ValueB")
                     ELSE SltSignConstraint(row, "SgnC", "Helper3", "ValueC")]

\* the constraints of a chip all evaluate to zero
AllZero(constraints) == \A k \in DOMAIN constraints : constraints[k] = 0

\* operand pairs: equal, ordered both ways, top bit set, mixed signs, borrows that ripple
OperandPairs ==
    {<<U32(10), U32(10)>>, <<U32(10), U32(20)>>, <<U32(0), U32(10)>>, <<U32(0), U32(0)>>,
     <<<<65535, 65526>>, U32(10)>>, <<U32(10), <<65535, 65526>>>>,
     <<<<65535, 65535>>, U32(0)>>, <<U32(0), <<65535, 65535>>>>,
     <<<<32768, 0>>, <<65535, 65535>>>>, <<<<32767, 65535>>, <<32768, 0>>>>,
     <<<<65535, 61536>>, <<65535, 63536>>>>, <<U32(256), U32(255)>>}

\* immediates: 12 and -4
Immediates == {U32(12), <<65535, 65532>>}

\* pcs: one whose increment carries into the next limb, one whose increment wraps
Pcs == {U32(4348), <<65535, 65532>>}

Step(opcode, a, b, c, at) ==
    [some |-> TRUE, opcode |-> opcode, value_a |-> a, value_b |-> b, value_c |-> c, pc |-> at]

\* the steps a row is filled from
VmSteps ==
    {NoStep}
    \cup {Step("BGEU", o[1], o[2], imm, at) : o \in OperandPairs, imm \in Immediates, at \in Pcs}
    \cup {Step(op, U32(0), o[1], o[2], U32(4348)) : op \in {"SLT", "SLTI"}, o \in OperandPairs}
    \cup {Step("ADD", U32(30), U32(10), U32(20), U32(4348))}

\* the rows of the trace a step can be filled into: the first and another one
RowIndices == {0, 5}

\* what the cells no chip has written yet can hold
PriorCells == {0, 77}

\* one call of a chip's fill_main_trace on the row
ChipFill(chip, row, executed_as, writes) ==
    /\ forged = "none"
    /\ \A k \in 1..Len(filled) : filled[k] # chip
    /\ filled' = Append(filled, chip)
    /\ traces' = row
    /\ execution_result' = executed_as
    /\ written' = [k \in 1..Len(writes) |-> [row |-> row_idx, col |-> writes[k].col]]
    /\ UNCHANGED <<vm_step, side_note, forged, row_idx>>
    /\ UNCHANGED <<emu_vars, dec_vars, mem_vars, pass_vars, lookup_vars, prove_vars, block_vars>>

\* BgeuChip::fill_main_trace(traces, row_idx, vm_step, side_note)
BgeuFillMainTrace ==
    ChipFill("bgeu", BgeuFill(traces, vm_step),
             IF vm_step.some /\ vm_step.opcode = "BGEU" THEN BgeuExecute(vm_step)
             ELSE execution_result,
             BgeuWrites(vm_step))

\* SltChip::fill_main_trace(traces, row_idx, vm_step, side_note)
SltFillMainTrace ==
    ChipFill("slt", SltFill(traces, vm_step),
             IF vm_step.some /\ vm_step.opcode \in {"SLT", "SLTI"} THEN SltExecute(vm_step)
             ELSE execution_result,
             SltWrites(vm_step))

\* a prover that does not run the chips may commit to any cells
ProverWrites(how, row) ==
    /\ forged = "none"
    /\ Len(filled) = 2
    /\ forged' = how
    /\ traces' = row
    /\ UNCHANGED <<vm_step, side_note, execution_result, filled, row_idx, written>>
    /\ UNCHANGED <<emu_vars, dec_vars, mem_vars, pass_vars, lookup_vars, prove_vars, block_vars>>

Bits4 == [1..WORD_SIZE -> {0, 1}]

\* the row with the diff and pc_next limbs moved by what the BGEU constraints leave over
BgeuSolved(row) ==
    [row EXCEPT !["Helper1"] = [i \in 1..WORD_SIZE |-> FAdd(row["Helper1"][i],
                                                          BgeuBorrowConstraint(row, i))],
                !["PcNext"]  = [i \in 1..WORD_SIZE |-> FAdd(row["PcNext"][i],
                                                          BgeuPcConstraint(row, i))]]

\* the prover picks the borrow and carry flags of a BGEU row and solves the constraints
\* for the diff and pc_next limbs
ForgeBgeu ==
    /\ traces["IsBgeu"] = <<1>>
    /\ \E borrow \in Bits4, carry \in Bits4 :
          ProverWrites("bgeu", BgeuSolved([traces EXCEPT !["BorrowFlag"] = borrow,
                                                          !["CarryFlag"] = carry]))

\* the signs a prover can claim
ClaimedSigns == {0, 1, 2}

\* the row with the diff, magnitude and result cells moved by what the SLT constraints
\* leave over
SltSolved(row) ==
    [row EXCEPT
       !["Helper1"] = [i \in 1..WORD_SIZE |-> FSub(row["Helper1"][i],
                                                  SltBorrowConstraint(row, i))],
       !["Helper2"] = [row["Helper2"] EXCEPT
                          ![WORD_SIZE] = FSub(row["Helper2"][WORD_SIZE],
                                              SltSignConstraint(row, "SgnB", "Helper2",
                                                                "ValueB"))],
       !["Helper3"] = [row["Helper3"] EXCEPT
                          ![WORD_SIZE] = FSub(row["Helper3"][WORD_SIZE],
                                              SltSignConstraint(row, "SgnC", "Helper3",
                                                                "ValueC"))],
       !["ValueA"]  = [i \in 1..WORD_SIZE |->
                          IF i = 1 THEN FAdd(row["ValueA"][1], SltResultConstraint(row, 1))
                          ELSE FSub(row["ValueA"][i], SltResultConstraint(row, i))]]

\* the prover picks the signs and the borrow flags of an SLT row and solves the
\* constraints for the other cells
ForgeSlt ==
    /\ traces["IsSlt"] = <<1>>
    /\ \E sgn_b \in ClaimedSigns, sgn_c \in ClaimedSigns, borrow \in Bits4 :
          ProverWrites("slt", SltSolved([traces EXCEPT !["SgnB"] = <<sgn_b>>,
                                                        !["SgnC"] = <<sgn_c>>,
                                                        !["CarryFlag"] = borrow]))

\* cells outside every range
AssignedWords == {<<P - 1, P - 1, P - 1, P - 1>>, <<256, 300, 2, 128>>}

\* the prover overwrites one column other than the selectors
Assign ==
    \E col \in Columns \ {"IsBgeu", "IsSlt"}, word \in AssignedWords :
        ProverWrites("assign",
                     [traces EXCEPT ![col] = [i \in 1..ColumnSize(col) |-> word[i]]])

InitChip ==
    /\ EmuInit("harvard", <<>>, Registry(BuiltinOpcodes, {}, {}))
    /\ DecIdle
    /\ MemIdle
    /\ PassIdle
    /\ LookupIdle
    /\ ProveIdle
    /\ vm_step \in VmSteps
    /\ \E prior \in PriorCells : traces = CpuRow(vm_step, prior)
    /\ side_note = <<"SideNote::new">>
    /\ execution_result = NoExecution
    /\ filled = <<>>
    /\ forged = "none"
    /\ row_idx \in RowIndices
    /\ written = <<>>

NextChip ==
    \/ BgeuFillMainTrace
    \/ SltFillMainTrace
    \/ ForgeBgeu
    \/ ForgeSlt
    \/ Assign

SpecChip == InitChip /\ [][NextChip]_vars

\* ---------------------------------------------------------------- execute_basic_block
\* Emulator::execute_basic_block called on a block, as the tests of executor.rs call it
\* on HarvardEmulator::default() and LinearEmulator::default().
ADDI(rd, rs1, imm) == Instruction(Opcode(19, 0, NoneU8, "addi"), rd, rs1, U32(imm), "IType")

ADD(rd, rs1, rs2) == Instruction(Opcode(51, 0, 0, "add"), rd, rs1, U32(rs2), "RType")

LoadWord(rd, rs1, imm) == Instruction(Opcode(3, 2, NoneU8, "lw"), rd, rs1, U32(imm), "IType")

\* setup_basic_block_ir: x1 = 1, then x2 = x1 + x0, x3 = x2 + x1, .. x31 = x30 + x29
FibonacciBlock == [i \in 1..32 |-> IF i = 1 THEN ADDI(1, 0, 1) ELSE ADD(i, i - 1, i - 2)]

\* the instructions of the other blocks
BlockInstructions == {ADDI(1, 0, 1), ADD(2, 1, 1), LoadWord(3, 1, 4096), Unimpl}

BasicBlocks == SeqsUpTo(BlockInstructions, MaxLen) \cup {FibonacciBlock}

\* an iterator that yields the instructions of the block from the last to the first
NextInstructionReversed(block, i) == block[Len(block) + 1 - i]

\* `for instruction in basic_block.0.iter()`: the instruction of round i
NextInstruction(block, i) == block[i]

\* the (load_ops, store_ops) the executor of the instruction returns
InstructionOps(ins, regs) ==
    IF ins.opcode.name = "lw" THEN <<MemOp("Word", Add32(regs[ins.op_b], ins.op_c))>>
    ELSE <<>>

\* the MemoryRecords execute_instruction returns, and the timestamps it leaves:
\* MemoryRecords::new() in the Harvard emulator, the records of the ops in the linear one
InstructionRecords(k, ins, regs, ts, clock) ==
    IF k = "harvard" THEN [ts |-> ts, records |-> {}]
    ELSE LinearRecords(InstructionOps(ins, regs), <<>>, ts, clock)

\* one round of the loop of execute_basic_block: execute_instruction(instruction)?,
\* results.push(res), transcript.push(mem)
ExecuteBlockInstruction ==
    /\ phase = "block"
    /\ idx <= Len(basic_block)
    /\ \E ins \in {NextInstruction(basic_block, idx)} :
       \E o \in {IF kind = "harvard"
                 THEN HarvardExecuteInstruction(instruction_executor, ins, registers, pc,
                                                global_clock)
                 ELSE LinearExecuteInstruction(instruction_executor, ins, registers, pc,
                                               global_clock)} :
       \E mem \in {InstructionRecords(kind, ins, registers, access_timestamps, global_clock)} :
           /\ registers' = o.regs
           /\ pc' = o.pc
           /\ global_clock' = o.clock
           /\ idx' = idx + 1
           /\ bb_results' = IF o.ok THEN Append(bb_results, o.res) ELSE bb_results
           /\ block_transcript' = IF o.ok THEN Append(block_transcript, mem.records)
                                  ELSE block_transcript
           /\ access_timestamps' = IF o.ok THEN mem.ts ELSE access_timestamps
           /\ phase' = IF o.ok THEN "block" ELSE "done"
           /\ result' = IF o.ok THEN Running ELSE Returned("Err", o.err)
           /\ executed' = IF o.ok THEN executed + 1 ELSE executed
           /\ block_log' = Append(block_log, [ins |-> ins, ok |-> o.ok, seen |-> registers,
                                              left |-> o.regs, clock |-> global_clock])
           /\ last' = [NoCall EXCEPT !.op = "exec", !.ok = o.ok, !.err = o.err,
                                     !.pc_before = pc, !.pc_exec = o.pc_exec,
                                     !.ins = <<ins>>, !.arm = o.arm,
                                     !.memory = ArmMemory(kind, o.arm),
                                     !.clock_before = global_clock,
                                     !.block_pc = last.block_pc]
    /\ UNCHANGED <<kind, instruction_memory, base_address, basic_block_cache,
                   instruction_executor, basic_block, first_block, results>>
    /\ UNCHANGED dec_vars
    /\ UNCHANGED <<memory_records, mem_ops, ts_before, hist, hist_before, order_outcomes>>
    /\ UNCHANGED pass_vars
    /\ UNCHANGED prover_vars

\* execute_basic_block after the loop: Ok((results, transcript))
ReturnBlock ==
    /\ phase = "block"
    /\ idx > Len(basic_block)
    /\ phase' = "done"
    /\ result' = Returned("Ok", NoError)
    /\ results' = bb_results
    /\ UNCHANGED <<kind, instruction_memory, base_address, pc, registers, global_clock,
                   basic_block_cache, instruction_executor, basic_block, idx, bb_results,
                   last, first_block, executed>>
    /\ UNCHANGED dec_vars
    /\ UNCHANGED mem_vars
    /\ UNCHANGED pass_vars
    /\ UNCHANGED prover_vars
    /\ UNCHANGED block_vars

\* HarvardEmulator::default() or LinearEmulator::default(), and the block handed to
\* execute_basic_block
InitBlock ==
    /\ kind \in {"harvard", "linear"}
    /\ instruction_memory = <<>>
    /\ instruction_executor = Registry(BuiltinOpcodes, {}, {})
    /\ base_address = BaseOf(kind)
    /\ pc = BaseOf(kind)
    /\ registers = [r \in 0..31 |-> U32(0)]
    /\ global_clock = 1
    /\ basic_block_cache = EmptyMap
    /\ phase = "block"
    /\ basic_block \in BasicBlocks
    /\ idx = 1
    /\ bb_results = <<>>
    /\ results = <<>>
    /\ result = Running
    /\ last = NoCall
    /\ first_block = EmptyMap
    /\ executed = 0
    /\ block_transcript = <<>>
    /\ block_log = <<>>
    /\ DecIdle
    /\ MemIdle
    /\ PassIdle
    /\ ProverIdle

NextBlock == ExecuteBlockInstruction \/ ReturnBlock

SpecBlock == InitBlock /\ [][NextBlock]_vars

\* ---------------------------------------------------------------- properties
LastIns == last.ins[1]

IsInstructionAddress(p) ==
    \E i \in 0..(Len(instruction_memory) - 1) : AddrOf(base_address, i) = p

\* C1: every execute_instruction that returns Ok raises global_clock by exactly 1, so
\* after n successful instructions of an emulator built with clock 1, global_clock = 1 + n
C1_ClockCountsInstructions ==
    /\ global_clock = 1 + executed
    /\ (last.op = "exec" /\ last.ok) => global_clock = last.clock_before + 1

C1_Witness ==
    /\ kind = "linear" /\ executed >= 3
    /\ last.op = "exec" /\ last.ok /\ is_branch_or_jump_instruction(LastIns)

\* C2: after a successful execute_instruction, PC is its old value plus 4 when the
\* instruction is no branch or jump, and exactly what the executor set when it is one
C2_PcStep ==
    (last.op = "exec" /\ last.ok) =>
        IF is_branch_or_jump_instruction(LastIns) THEN pc = last.pc_exec
        ELSE pc = Add32(last.pc_before, U32(4))

C2_Witness ==
    /\ last.op = "exec" /\ last.ok /\ is_branch_or_jump_instruction(LastIns)
    /\ pc # Add32(last.pc_before, U32(4))
    /\ executed >= 2

C4_UndefinedInstruction ==
    (/\ last.op = "exec"
     /\ ~is_system_instruction(LastIns)
     /\ LastIns.opcode \notin (instruction_executor.builtins
                               \cup instruction_executor.read_input
                               \cup instruction_executor.write_output)) =>
        /\ ~last.ok
        /\ last.err = UndefinedInstruction(LastIns.opcode)
        /\ result = Returned("Err", UndefinedInstruction(LastIns.opcode))

C4_Witness ==
    /\ last.op = "exec" /\ ~last.ok
    /\ last.err.name = "UndefinedInstruction"
    /\ last.err.opcode.name = "dynamic"
    /\ executed >= 1

\* C5: the first failing instruction ends execute_basic_block and execute() with its
\* error; nothing is executed or fetched after it
C5_FirstErrorAborts ==
    [][/\ phase # "done"
       /\ (last'.op = "exec" /\ ~last'.ok) =>
              (phase' = "done" /\ result' = Returned("Err", last'.err))]_vars

C5_Witness ==
    /\ last.op = "exec" /\ ~last.ok
    /\ phase = "done"
    /\ idx <= Len(basic_block)
    /\ executed >= 1

\* C6: execute() never returns Ok; what it returns is the error of the fetch or the
\* instruction that failed
C6_ExecuteReturnsErr ==
    /\ result.ret \in {"running", "Err"}
    /\ (phase = "done") <=> (result.ret = "Err")
    /\ (phase = "done") =>
          /\ ~last.ok
          /\ result.err = last.err
          /\ result.err.name \in {"VMExited", "VMOutOfInstructions",
                                  "UndefinedInstruction", "UnimplementedSyscall"}

C6_Witness ==
    /\ phase = "done"
    /\ result = Returned("Err", VMExited(U32(0)))
    /\ executed >= 1

\* C7: once fetch_block(pc) has succeeded, every later fetch_block(pc) returns the same
\* block and decodes nothing
C7_CacheHit ==
    /\ \A p \in DOMAIN first_block :
          p \in DOMAIN basic_block_cache /\ basic_block_cache[p] = first_block[p]
    /\ (last.op = "fetch" /\ last.ok) => last.block = first_block[last.pc_before]
    /\ (last.op = "fetch" /\ last.repeat) => (last.ok /\ ~last.decoded)

C7_Witness ==
    /\ last.op = "fetch" /\ last.repeat
    /\ Cardinality(DOMAIN basic_block_cache) >= 3

\* C8: decode_until_end_of_a_block returns the decoding, in order, of a prefix of the
\* slice; the prefix stops short of the slice only behind a branch or jump, and no
\* instruction before the last is a branch or jump, so the last instruction is the first
\* branch/jump of the slice when there is one and the block is as long as the slice
\* otherwise; the block is empty only for the empty slice
C8_BlockIsPrefix ==
    "block" \in decoded =>
        /\ Len(out_block) <= Len(slice)
        /\ (out_block = <<>>) <=> (slice = <<>>)
        /\ \A i \in 1..Len(out_block) : out_block[i] = DecodeWordBlock(slice[i])
        /\ \A i \in 1..(Len(out_block) - 1) : ~is_branch_or_jump_instruction(out_block[i])
        /\ Len(out_block) < Len(slice) =>
               is_branch_or_jump_instruction(out_block[Len(out_block)])

C8_Witness ==
    /\ "block" \in decoded
    /\ Len(slice) = 3
    /\ Len(out_block) = 2
    /\ out_block[1].opcode.name = "dynamic"
    /\ out_block[2].opcode.name = "bgeu"

\* the instruction a rejected word stands for: R-type `dynamic` with the fields at
\* their bit positions when the low 7 bits are 0001011, unimpl otherwise
CustomClass(w) ==
    IF Bits(w, 0, 7) = 11
    THEN Instruction(Opcode(11, Bits(w, 12, 3), Bits(w, 25, 7), "dynamic"),
                     Bits(w, 7, 5), Bits(w, 15, 5), U32(Bits(w, 20, 5)), "RType")
    ELSE Unimpl

\* the instructions of the blocks of a program, in order
Flatten(blocks) ==
    LET cat[k \in 0..Len(blocks)] == IF k = 0 THEN <<>> ELSE cat[k - 1] \o blocks[k]
    IN  cat[Len(blocks)]

\* C9: whichever of the two decoders runs, a word the standard decoder rejects is
\* decoded as the R-type instruction `dynamic` with rd, rs1, rs2, fn3, fn7 taken from
\* bits 11..7, 19..15, 24..20, 14..12, 31..25 when its low 7 bits are 0001011, and as
\* unimpl otherwise
C9_CustomOpcodeInBothDecoders ==
    /\ "block" \in decoded =>
          \A i \in 1..Len(out_block) :
              process_instruction(slice[i]) = <<>> => out_block[i] = CustomClass(slice[i])
    /\ "program" \in decoded =>
          \A i \in 1..Len(Flatten(out_program)) :
              process_instruction(slice[i]) = <<>> =>
                  Flatten(out_program)[i] = CustomClass(slice[i])

\* C10: the blocks decode_instructions returns, put end to end, are the decoding of
\* every input word in input order; every block is non-empty; every block but the last
\* ends with a branch or jump; no other instruction of a block is a branch or jump
C10_ProgramIsPartition ==
    "program" \in decoded =>
        /\ Flatten(out_program) = [i \in 1..Len(slice) |-> DecodeWordProgram(slice[i])]
        /\ \A b \in 1..Len(out_program) :
              /\ out_program[b] # <<>>
              /\ b < Len(out_program) =>
                     is_branch_or_jump_instruction(out_program[b][Len(out_program[b])])
              /\ \A i \in 1..(Len(out_program[b]) - 1) :
                     ~is_branch_or_jump_instruction(out_program[b][i])

C10_Witness ==
    /\ "program" \in decoded
    /\ Len(slice) = 3
    /\ Len(out_program) = 2
    /\ Len(out_program[1]) = 2
    /\ is_branch_or_jump_instruction(out_program[1][2])

\* address rounded down to a multiple of k (k = 2 or 4), by arithmetic on the low half
RoundDown(address, k) == <<address[1], address[2] - (address[2] % k)>>

\* the instruction made exactly one access
SingleAccess == Cardinality(mem_ops.load_ops) + Cardinality(mem_ops.store_ops) = 1

\* C11: the previous timestamp of a byte or half-word access at A is the maximum of the
\* timestamps stored for A, for A rounded down to 2 and for A rounded down to 4 (0 where
\* nothing is stored)
C11_SubWordPrevIsMax ==
    SingleAccess =>
        \A r \in memory_records :
            r.size \in {"Byte", "HalfWord"} =>
                r.prev_timestamp =
                    Max(GetOr0(ts_before, r.address),
                        Max(GetOr0(ts_before, RoundDown(r.address, 2)),
                            GetOr0(ts_before, RoundDown(r.address, 4))))

C11_Witness ==
    /\ SingleAccess
    /\ \E r \in memory_records :
          /\ r.size = "Byte"
          /\ r.address = Add32(DataWord, U32(3))
          /\ GetOr0(ts_before, r.address) > 0
          /\ GetOr0(ts_before, RoundDown(r.address, 4)) > GetOr0(ts_before, r.address)
          /\ GetOr0(ts_before, RoundDown(r.address, 2))
                 > GetOr0(ts_before, RoundDown(r.address, 4))
          /\ r.prev_timestamp = GetOr0(ts_before, RoundDown(r.address, 2))

\* the latest clock among the accesses of the history h chosen by Chosen(op), 0 if none
LatestClock(h, Chosen(_)) ==
    IF \A op \in DOMAIN h : ~Chosen(op) THEN 0
    ELSE h[CHOOSE op \in DOMAIN h :
               Chosen(op) /\ \A other \in DOMAIN h : Chosen(other) => h[other] <= h[op]]

\* the clock of the most recent byte or half-word access inside the word at w, 0 if none
SubWordClock(h, w) ==
    LET InWord(op) == op.size # "Word" /\ RoundDown(op.address, 4) = w
    IN  LatestClock(h, InWord)

\* C12: a word access gets a previous timestamp that is at least the clock of every
\* earlier byte or half-word access inside that word
C12_WordSeesSubWord ==
    \A r \in memory_records :
        (SingleAccess /\ r.size = "Word") =>
            r.prev_timestamp >= SubWordClock(hist_before, r.address)

\* the clock of the most recent access that started at the address, 0 if none
HistClock(h, address) ==
    LET At(op) == op.address = address
    IN  LatestClock(h, At)

\* the number of bytes of an access
SizeBytes(size) == CASE size = "Byte" -> 1 [] size = "HalfWord" -> 2 [] OTHER -> 4

\* the clock of the most recent access whose bytes include the address, 0 if none
CoverClock(h, address) ==
    LET Covers(op) == /\ op.address[1] = address[1]
                      /\ op.address[2] <= address[2]
                      /\ address[2] < op.address[2] + SizeBytes(op.size)
    IN  LatestClock(h, Covers)

\* C13 as stated: every record carries the clock of its instruction, and its previous
\* timestamp is the clock of the most recent earlier access to its address (read either
\* as an access that started at the address or as one whose bytes include it), or 0 when
\* there is none
C13_PrevIsLastAccessToAddress ==
    SingleAccess =>
        \A r \in memory_records :
            /\ r.timestamp = global_clock - 1
            /\ r.prev_timestamp \in {HistClock(hist_before, r.address),
                                     CoverClock(hist_before, r.address)}

\* C13, amended: every record carries the clock of its instruction; its previous
\* timestamp is never later than that clock and earlier when the instruction made one
\* access; for a word access it is the clock of the most recent earlier access to the
\* address (0 if none); for a byte or half-word access it is the latest of the clocks of
\* the most recent accesses to the address, to the address rounded down to 2 (byte only)
\* and to the address rounded down to 4, whether or not those accesses include the byte
C13_RecordTimestamps ==
    \A r \in memory_records :
        /\ r.timestamp = global_clock - 1
        /\ r.prev_timestamp <= r.timestamp
        /\ SingleAccess =>
              /\ r.prev_timestamp < r.timestamp
              /\ r.prev_timestamp >= HistClock(hist_before, r.address)
              /\ r.size = "Word" => r.prev_timestamp = HistClock(hist_before, r.address)
              /\ r.size = "HalfWord" =>
                     r.prev_timestamp = Max(HistClock(hist_before, r.address),
                                            HistClock(hist_before, RoundDown(r.address, 4)))
              /\ r.size = "Byte" =>
                     r.prev_timestamp =
                         Max(HistClock(hist_before, r.address),
                             Max(HistClock(hist_before, RoundDown(r.address, 2)),
                                 HistClock(hist_before, RoundDown(r.address, 4))))

C13_Witness ==
    /\ SingleAccess
    /\ \E r \in memory_records :
          /\ r.size = "Byte"
          /\ HistClock(hist_before, r.address) > 0
          /\ r.prev_timestamp > HistClock(hist_before, r.address)
          /\ r.prev_timestamp > CoverClock(hist_before, r.address)
          /\ r.timestamp = 3

C15_PassesAgree ==
    (kind = "linear" /\ harvard_pass.done /\ phase = "done") =>
        /\ result = harvard_pass.result
        /\ trace = harvard_pass.trace

\* the instruction a word of the first pass's image decodes to
HarvardDecoded(i) == decode_instruction(harvard_pass.instructions[i])

\* word i of the second pass's image is instruction d with the opcode replaced: the
\* load (store) word with the register fields of d
IsRewritten(i, d, opcode) ==
    /\ instruction_memory[i] = Encode(Instruction(opcode, d.op_a, d.op_b, d.op_c, d.ins_type))
    /\ extract_opcode(instruction_memory[i]) = opcode.raw
    /\ extract_fn3(instruction_memory[i]) = opcode.fn3
    /\ extract_rd(instruction_memory[i]) = d.op_a
    /\ extract_rs1(instruction_memory[i]) = d.op_b
    /\ extract_rs2(instruction_memory[i]) = d.op_c[2]
    /\ process_instruction(instruction_memory[i]) # <<>>
    /\ process_instruction(instruction_memory[i])[1].opcode = opcode

\* C16: throughout the second pass the image has as many words as the first pass's
\* image; a word whose opcode is a read_input opcode of the first pass's registry is
\* the same instruction encoded with LW, a write_output word the same instruction
\* encoded with SW, and every other word is the word of the first image
C16_RewriteOnce ==
    (kind = "linear" /\ harvard_pass.done) =>
        /\ Len(instruction_memory) = Len(harvard_pass.instructions)
        /\ \A i \in 1..Len(harvard_pass.instructions) :
              IF HarvardDecoded(i).opcode \in harvard_pass.registry.read_input
              THEN IsRewritten(i, HarvardDecoded(i), LW)
              ELSE IF HarvardDecoded(i).opcode \in harvard_pass.registry.write_output
              THEN IsRewritten(i, HarvardDecoded(i), SW)
              ELSE instruction_memory[i] = harvard_pass.instructions[i]

\* the second pass has run an instruction of an image in which one word was rewritten
\* and another one kept
C16_Witness ==
    /\ kind = "linear"
    /\ harvard_pass.done
    /\ executed >= 1
    /\ \E i, j \in 1..Len(instruction_memory) :
          /\ instruction_memory[i] # harvard_pass.instructions[i]
          /\ instruction_memory[j] = harvard_pass.instructions[j]

\* the input the first pass was constructed with
GivenInput == IF kind = "harvard" THEN public_input ELSE harvard_pass.public_input

LastIsDuplicate ==
    /\ inserted # <<>>
    /\ \E i \in 1..(Len(inserted) - 1) : inserted[i].type = inserted[Len(inserted)].type

\* C18: after any sequence of inserts, the last insert has panicked exactly if its
\* relation type had been inserted before; as long as the types inserted are pairwise
\* distinct nothing has panicked and every one of them is in the container
C18_DuplicateInsertPanics ==
    /\ panicked <=> LastIsDuplicate
    /\ ~panicked =>
          /\ \A i, j \in 1..Len(inserted) : i # j => inserted[i].type # inserted[j].type
          /\ Cardinality(DOMAIN all_lookup_elements) = Len(inserted)
          /\ \A i \in 1..Len(inserted) :
                \E k \in DOMAIN all_lookup_elements :
                    all_lookup_elements[k].variant = inserted[i].type

\* a relation type has been inserted a second time, after another type
C18_Witness ==
    /\ panicked
    /\ Len(inserted) = 3
    /\ inserted[1].type = inserted[3].type
    /\ inserted[1].type # inserted[2].type

\* the tables whose roots the channel had absorbed when the lookup elements were drawn
MixedBeforeDraw ==
    {lookup_elements.channel[i].of : i \in DOMAIN lookup_elements.channel}

\* C19: once the lookup elements are drawn, they were drawn from a channel that had
\* absorbed the commitments of the preprocessed and of the main table; and an
\* interaction trace, once there, was built from the elements drawn
C19_DrawAfterCommit ==
    /\ lookup_elements.drawn => {"preprocessed", "main"} \subseteq MixedBeforeDraw
    /\ interaction_trace # NoTable =>
          /\ lookup_elements.drawn
          /\ interaction_trace.lookup_elements = lookup_elements

FourTables == <<"preprocessed", "main", "interaction", "program">>

\* C20: the trees of the commitment scheme are, in order, the first tables of
\* preprocessed, main, interaction, program, and the channel has absorbed their roots
\* in that order; the backend is called at most once and only with all four committed;
\* when prove has returned the backend was called once and its error, if any, is what
\* prove returned
C20_FourCommitsThenProve ==
    /\ Len(commitment_scheme) <= Len(FourTables)
    /\ \A i \in 1..Len(commitment_scheme) : commitment_scheme[i].table = FourTables[i]
    /\ [i \in 1..Len(commitment_scheme) |-> commitment_scheme[i].table]
          = SelectSeq([i \in DOMAIN prover_channel |->
                          IF prover_channel[i].op = "mix_root" THEN prover_channel[i].of
                          ELSE ""], LAMBDA t : t # "")
    /\ backend_calls <= 1
    /\ backend_calls = 1 => Len(commitment_scheme) = Len(FourTables)
    /\ prove_pc = "returned" =>
          /\ backend_calls = 1
          /\ backend_outcome = "Ok" => prove_result = "Ok(proof)"
          /\ backend_outcome # "Ok" => prove_result = backend_outcome
    /\ prove_pc # "returned" => prove_result = "none"

\* prove has returned the error of the backend, after four commitments over a trace
\* of several rows
C20_Witness ==
    /\ prove_pc = "returned"
    /\ backend_outcome = "ConstraintsNotSatisfied"
    /\ prove_result = "ConstraintsNotSatisfied"
    /\ Len(commitment_scheme) = 4
    /\ num_steps >= 3

\* C21: for num_steps >= 1 the log_size of Machine::prove is ceil(log2(num_steps)):
\* 2^log_size >= num_steps and, when log_size > 0, 2^(log_size-1) < num_steps; the
\* twiddles are sized log_size + 2 + log_blowup_factor, and the MachineEval handed to
\* the backend reports the degree bound log_size + 2.
C21_LogSizeIsCeilLog2 ==
    (prove_pc # "idle" /\ num_steps >= 1) =>
        /\ 2 ^ log_size >= num_steps
        /\ log_size > 0 => 2 ^ (log_size - 1) < num_steps
        /\ twiddles.log_size = log_size + 2 + config.fri_config.log_blowup_factor
        /\ component.made =>
              /\ max_constraint_log_degree_bound(component) = log_size + 2
              /\ twiddles.log_size = max_constraint_log_degree_bound(component)
                                         + config.fri_config.log_blowup_factor

C21_Witness ==
    /\ prove_pc = "returned"
    /\ num_steps = 5
    /\ log_size = 3
    /\ component.made
    /\ twiddles.log_size = 7

\* the u32 whose little-endian limbs are the Word
WordOf(bytes) == <<bytes[4] * 256 + bytes[3], bytes[2] * 256 + bytes[1]>>

\* x < y for two u32
LtU(x, y) == x[1] < y[1] \/ (x[1] = y[1] /\ x[2] < y[2])

\* C22: BgeuChip::execute on operands x (value_a) and y (value_b): borrow_bits[3] = 1
\* exactly when x < y unsigned, diff_bytes = (x - y) mod 2^32, and pc_next is
\* (pc + imm) mod 2^32 when x >= y and (pc + 4) mod 2^32 otherwise.
C22_BgeuExecute ==
    execution_result.chip = "bgeu" =>
        /\ execution_result.borrow_bits[4] = 1 <=> LtU(vm_step.value_a, vm_step.value_b)
        /\ execution_result.borrow_bits[4] \in {0, 1}
        /\ Add32(WordOf(execution_result.diff_bytes), vm_step.value_b) = vm_step.value_a
        /\ \A i \in 1..WORD_SIZE : execution_result.diff_bytes[i] \in 0..255
        /\ \A i \in 1..WORD_SIZE : execution_result.pc_next[i] \in 0..255
        /\ WordOf(execution_result.pc_next) =
              IF LtU(vm_step.value_a, vm_step.value_b)
              THEN Add32(vm_step.pc, U32(4))
              ELSE Add32(vm_step.pc, vm_step.value_c)

\* equal operands, the branch is taken and pc + imm wraps
C22_Witness ==
    /\ execution_result.chip = "bgeu"
    /\ vm_step.value_a = U32(10)
    /\ vm_step.value_b = U32(10)
    /\ vm_step.pc = <<65535, 65532>>
    /\ vm_step.value_c = U32(12)
    /\ execution_result.pc_next = <<8, 0, 0, 0>>
    /\ execution_result.borrow_bits[4] = 0

\* the chip's fill_main_trace has run on the row and no prover has overwritten it
FilledBy(chip) == forged = "none" /\ \E k \in 1..Len(filled) : filled[k] = chip

IsStep(opcodes) == vm_step.some /\ vm_step.opcode \in opcodes

\* C23: on a BGEU step the row BgeuChip::fill_main_trace writes (Helper1, BorrowFlag,
\* ValueA, PcNext, CarryFlag), with ValueB, ValueC, Pc holding the operand, immediate and
\* pc limbs and is_bgeu = 1, makes all eight BGEU constraints evaluate to zero.
C23_BgeuRowSatisfies ==
    (IsStep({"BGEU"}) /\ FilledBy("bgeu")) =>
        /\ traces["IsBgeu"] = <<1>>
        /\ traces["ValueA"] = get_value_a(vm_step)
        /\ traces["ValueB"] = get_value_b(vm_step)
        /\ traces["ValueC"] = get_value_c(vm_step)
        /\ traces["Pc"] = WordBytes(vm_step.pc)
        /\ traces["Helper1"] = execution_result.diff_bytes
        /\ traces["BorrowFlag"] = execution_result.borrow_bits
        /\ traces["PcNext"] = execution_result.pc_next
        /\ traces["CarryFlag"] = execution_result.carry_bits
        /\ Len(BgeuConstraints(traces)) = 8
        /\ AllZero(BgeuConstraints(traces))

\* a branch not taken whose pc + 4 carries into the second limb
C23_Witness ==
    /\ IsStep({"BGEU"})
    /\ FilledBy("bgeu")
    /\ vm_step.value_a = U32(10)
    /\ vm_step.value_b = U32(20)
    /\ traces["Pc"] = <<252, 16, 0, 0>>
    /\ traces["PcNext"] = <<0, 17, 0, 0>>
    /\ traces["CarryFlag"] = <<1, 0, 0, 0>>
    /\ traces["BorrowFlag"][4] = 1
    /\ AllZero(BgeuConstraints(traces))

\* the u32 with its top bit flipped: signed order becomes unsigned order
FlipTop(x) == <<(x[1] + 32768) % Half, x[2]>>

\* b < c for two u32 read as two's-complement integers
LtS(b, c) == LtU(FlipTop(b), FlipTop(c))

\* C24: SltChip::execute on b (value_b) and c (value_c; the immediate for SLTI) yields
\* result = [1,0,0,0] exactly when b < c signed and [0,0,0,0] otherwise, and this is
\* sgn_b(1-sgn_c) + ltu(sgn_b sgn_c + (1-sgn_b)(1-sgn_c)), ltu the top borrow of b - c.
C24_SltExecute ==
    execution_result.chip = "slt" =>
        /\ execution_result.result =
              IF LtS(vm_step.value_b, vm_step.value_c) THEN <<1, 0, 0, 0>> ELSE <<0, 0, 0, 0>>
        /\ execution_result.borrow_bits[4] = 1 <=> LtU(vm_step.value_b, vm_step.value_c)
        /\ \E sgn_b \in {BoolCell(vm_step.value_b[1] >= 32768)},
              sgn_c \in {BoolCell(vm_step.value_c[1] >= 32768)},
              ltu \in {execution_result.borrow_bits[4]} :
              execution_result.result[1] =
                  sgn_b * (1 - sgn_c)
                  + ltu * (sgn_b * sgn_c + (1 - sgn_b) * (1 - sgn_c))

\* 0x80000000 against -1
C24_Witness ==
    /\ execution_result.chip = "slt"
    /\ vm_step.opcode = "SLTI"
    /\ vm_step.value_b = <<32768, 0>>
    /\ vm_step.value_c = <<65535, 65535>>
    /\ execution_result.result = <<1, 0, 0, 0>>

\* C25: on an SLT or SLTI step the row SltChip::fill_main_trace writes (Helper1, Helper2,
\* Helper3, SgnB, SgnC, CarryFlag as borrow bits, ValueA), with ValueB, ValueC holding
\* the operands and is_slt = 1, makes every SLT constraint evaluate to zero: four
\* borrow-chain equations, the result equation on value_a[0], value_a[1..3] = 0 and the
\* two sign decompositions.
C25_SltRowSatisfies ==
    (IsStep({"SLT", "SLTI"}) /\ FilledBy("slt")) =>
        /\ traces["IsSlt"] = <<1>>
        /\ traces["ValueB"] = get_value_b(vm_step)
        /\ traces["ValueC"] = get_value_c(vm_step)
        /\ traces["Helper1"] = execution_result.diff_bytes
        /\ traces["CarryFlag"] = execution_result.borrow_bits
        /\ traces["ValueA"] = execution_result.result
        /\ traces["SgnB"][1] \in {0, 1}
        /\ traces["SgnC"][1] \in {0, 1}
        /\ traces["Helper2"][WORD_SIZE] \in 0..127
        /\ traces["Helper3"][WORD_SIZE] \in 0..127
        /\ Len(SltConstraints(traces)) = 10
        /\ AllZero(SltConstraints(traces))

\* a negative operand against a positive one
C25_Witness ==
    /\ IsStep({"SLT"})
    /\ FilledBy("slt")
    /\ vm_step.value_b = <<65535, 65526>>
    /\ vm_step.value_c = U32(10)
    /\ traces["SgnB"] = <<1>>
    /\ traces["SgnC"] = <<0>>
    /\ traces["Helper2"] = <<246, 255, 255, 127>>
    /\ traces["ValueA"] = <<1, 0, 0, 0>>
    /\ AllZero(SltConstraints(traces))

\* C26: every constraint of BgeuChip and of SltChip is a product with the chip's
\* selector: on a row whose selector is 0 every constraint of the chip evaluates to
\* zero whatever the other cells hold.
C26_SelectorGates ==
    traces # <<>> =>
        /\ traces["IsBgeu"] = <<0>> => AllZero(BgeuConstraints(traces))
        /\ traces["IsSlt"] = <<0>> => AllZero(SltConstraints(traces))

\* a padding row whose flags a prover has set to -1
C26_Witness ==
    /\ ~vm_step.some
    /\ forged = "assign"
    /\ traces["IsBgeu"] = <<0>>
    /\ traces["IsSlt"] = <<0>>
    /\ traces["CarryFlag"] = <<P - 1, P - 1, P - 1, P - 1>>
    /\ traces["Helper1"] = <<77, 77, 77, 77>>

\* C27: a chip's fill_main_trace changes nothing when the step is not its own:
\* BgeuChip writes no cell on padding or on an opcode other than BGEU, SltChip writes no
\* cell on an opcode other than SLT and SLTI; the trace and the side note stay as they were.
C27_FillLeavesOtherSteps ==
    [][(\/ filled' = Append(filled, "bgeu") /\ ~IsStep({"BGEU"})
        \/ filled' = Append(filled, "slt") /\ ~IsStep({"SLT", "SLTI"}))
       => (traces' = traces /\ side_note' = side_note)]_vars

\* both chips have run on a padding row that held other chips' cells
C27_Witness ==
    /\ ~vm_step.some
    /\ Len(filled) = 2
    /\ forged = "none"
    /\ traces = CpuRow(vm_step, 77)
    /\ execution_result = NoExecution

\* the row is accepted by the SLT chip: is_slt = 1 and every constraint the chip adds
\* evaluates to zero (the chip adds no lookup)
SltAccepts == traces # <<>> /\ traces["IsSlt"] = <<1>> /\ AllZero(SltConstraints(traces))

\* C28: every assignment accepted on a row with is_slt = 1 has sgn_b and sgn_c in
\* {0,1} and helper2[3], helper3[3] in [0,127]; an assignment with one of them out of
\* range is rejected by a constraint or lookup of the chip.
C28_SltRangeEnforced ==
    SltAccepts =>
        /\ traces["SgnB"][1] \in {0, 1}
        /\ traces["SgnC"][1] \in {0, 1}
        /\ traces["Helper2"][WORD_SIZE] \in 0..127
        /\ traces["Helper3"][WORD_SIZE] \in 0..127

\* execute_basic_block has returned Ok
BlockReturnedOk == phase = "done" /\ result = Returned("Ok", NoError) /\ Len(block_log) > 0

AreBytes(cols) == \A col \in cols : \A i \in 1..WORD_SIZE : traces[col][i] \in 0..255

\* every cell of the columns is a bit
AreBits(cols) == \A col \in cols : \A i \in 1..WORD_SIZE : traces[col][i] \in {0, 1}

\* a row with is_bgeu = 1, limbs in range and all eight BGEU constraints zero
BgeuAccepts ==
    /\ traces # <<>>
    /\ traces["IsBgeu"] = <<1>>
    /\ AreBytes({"ValueA", "ValueB", "ValueC", "Pc", "Helper1", "PcNext"})
    /\ AreBits({"BorrowFlag", "CarryFlag"})
    /\ AllZero(BgeuConstraints(traces))

\* C30: on a row with is_bgeu = 1 whose value, pc, diff and pc_next limbs are bytes and
\* whose borrow and carry flags are bits, if all eight BGEU constraints are zero then
\* borrow_bits[3] = 1 exactly when value_a < value_b unsigned, and pc_next is
\* (pc + imm) mod 2^32 when value_a >= value_b and (pc + 4) mod 2^32 otherwise.
C30_BgeuSound ==
    BgeuAccepts =>
        /\ traces["BorrowFlag"][4] = 1
              <=> LtU(WordOf(traces["ValueA"]), WordOf(traces["ValueB"]))
        /\ Add32(WordOf(traces["Helper1"]), WordOf(traces["ValueB"]))
              = WordOf(traces["ValueA"])
        /\ WordOf(traces["PcNext"]) =
              IF LtU(WordOf(traces["ValueA"]), WordOf(traces["ValueB"]))
              THEN Add32(WordOf(traces["Pc"]), U32(4))
              ELSE Add32(WordOf(traces["Pc"]), WordOf(traces["ValueC"]))

\* a prover's row for 10 against 20 that the chip accepts
C30_Witness ==
    /\ BgeuAccepts
    /\ forged = "bgeu"
    /\ traces["ValueA"] = <<10, 0, 0, 0>>
    /\ traces["ValueB"] = <<20, 0, 0, 0>>
    /\ traces["BorrowFlag"] = <<1, 1, 1, 1>>
    /\ traces["PcNext"] = <<0, 17, 0, 0>>

\* a row with is_slt = 1, limbs, flags, signs and magnitudes in range and all ten SLT
\* constraints zero
SltAcceptsInRange ==
    /\ SltAccepts
    /\ AreBytes({"ValueA", "ValueB", "ValueC", "Helper1"})
    /\ AreBits({"CarryFlag"})
    /\ traces["SgnB"][1] \in {0, 1}
    /\ traces["SgnC"][1] \in {0, 1}
    /\ traces["Helper2"][WORD_SIZE] \in 0..127
    /\ traces["Helper3"][WORD_SIZE] \in 0..127

\* C31: on a row with is_slt = 1 whose limbs are bytes, whose borrow flags and sign bits
\* are bits and whose magnitude helpers are in [0,127], if all SLT constraints are zero
\* then sgn_b and sgn_c are the top bits of value_b and value_c, and value_a is [1,0,0,0]
\* exactly when value_b < value_c as signed 32-bit integers and [0,0,0,0] otherwise.
C31_SltSound ==
    SltAcceptsInRange =>
        /\ traces["SgnB"][1] = BoolCell(traces["ValueB"][WORD_SIZE] >= 128)
        /\ traces["SgnC"][1] = BoolCell(traces["ValueC"][WORD_SIZE] >= 128)
        /\ traces["CarryFlag"][WORD_SIZE] = 1
              <=> LtU(WordOf(traces["ValueB"]), WordOf(traces["ValueC"]))
        /\ traces["ValueA"] =
              IF LtS(WordOf(traces["ValueB"]), WordOf(traces["ValueC"]))
              THEN <<1, 0, 0, 0>> ELSE <<0, 0, 0, 0>>

\* a prover's row for -10 against 10 that the chip accepts
C31_Witness ==
    /\ SltAcceptsInRange
    /\ forged = "slt"
    /\ traces["ValueB"] = <<246, 255, 255, 255>>
    /\ traces["ValueC"] = <<10, 0, 0, 0>>
    /\ traces["SgnB"] = <<1>>
    /\ traces["CarryFlag"] = <<0, 0, 0, 0>>
    /\ traces["ValueA"] = <<1, 0, 0, 0>>

\* the instruction the last call of execute_instruction was given
LastExecuted == last.op = "exec" /\ Len(last.ins) = 1

\* C32: in both emulators a system instruction is handled by the syscall handler
\* whatever the registry holds; otherwise a read_input entry for the opcode goes before a
\* write_output entry, which goes before the standard executor, and the registry's
\* lookup error is returned only when none applies. In the Harvard emulator read_input
\* acts on the input memory, write_output on the output memory, the others on the data
\* memory.
C32_DispatchPriority ==
    LastExecuted =>
        \E ins \in {last.ins[1]}, reg \in {instruction_executor} :
            /\ last.arm =
                  IF is_system_instruction(ins) THEN "syscall"
                  ELSE IF ins.opcode \in reg.read_input THEN "read_input"
                  ELSE IF ins.opcode \in reg.write_output THEN "write_output"
                  ELSE IF ins.opcode \in reg.builtins THEN "executor"
                  ELSE "error"
            /\ last.arm = "error" =>
                  (~last.ok /\ last.err = UndefinedInstruction(ins.opcode))
            /\ kind = "harvard" =>
                  last.memory = CASE last.arm = "read_input"   -> "input_memory"
                                  [] last.arm = "write_output" -> "output_memory"
                                  [] last.arm = "error"        -> "none"
                                  [] OTHER                     -> "data_memory"

\* an addi whose opcode has all three entries runs the read_input executor on the input
\* memory
C32_Witness ==
    /\ LastExecuted
    /\ kind = "harvard"
    /\ last.ins[1].opcode.name = "addi"
    /\ last.ins[1].opcode \in instruction_executor.read_input
    /\ last.ins[1].opcode \in instruction_executor.write_output
    /\ last.ins[1].opcode \in instruction_executor.builtins
    /\ last.arm = "read_input"
    /\ last.memory = "input_memory"

\* C33: when execute_instruction returns an error, in either emulator, global_clock is
\* unchanged and the PC has not been stepped; in the linear emulator no access timestamp
\* is updated and no memory record is emitted for the failing instruction.
C33_ErrorLeavesClockAndPc ==
    [][(phase \in {"exec", "block"} /\ last'.op = "exec" /\ ~last'.ok) =>
          /\ global_clock' = global_clock
          /\ pc' = pc
          /\ pc' = last'.pc_exec
          /\ access_timestamps' = access_timestamps
          /\ memory_records' = memory_records
          /\ block_transcript' = block_transcript
          /\ executed' = executed]_vars

\* the linear emulator has failed on the third instruction of a block, after a load
C33_Witness ==
    /\ kind = "linear"
    /\ phase = "done"
    /\ last.op = "exec"
    /\ ~last.ok
    /\ last.err = UndefinedInstruction(Unimpl.opcode)
    /\ Len(block_log) = 3
    /\ access_timestamps # EmptyMap
    /\ Len(block_transcript) = 2
    /\ global_clock = 3
    /\ pc = Add32(BaseOf("linear"), U32(8))

\* C34: during execute() every instruction is executed with the PC equal to the address
\* it was decoded from: the instruction at index i of the block fetched at pc0 is
\* executed with PC = pc0 + 4 i.
C34_PcFollowsBlock ==
    (LastExecuted /\ instruction_memory # <<>>) =>
        /\ idx - 1 \in 1..Len(basic_block)
        /\ last.ins[1] = basic_block[idx - 1]
        /\ last.pc_before = AddrOf(last.block_pc, idx - 2)
        /\ IsInstructionAddress(last.pc_before)
        /\ last.ins[1] =
              DecodeWordBlock(instruction_memory[InstructionIndex(base_address,
                                                                  last.pc_before) + 1])

\* the second instruction of the block fetched at the second word, after a jump back
C34_Witness ==
    /\ LastExecuted
    /\ instruction_memory = <<ADDI_X1_X0_1, ADDI_X1_X0_1, JAL_X0_M4>>
    /\ idx = 3
    /\ Len(basic_block) = 2
    /\ last.block_pc = AddrOf(base_address, 1)
    /\ last.pc_before = AddrOf(base_address, 2)
    /\ last.ok
    /\ pc = AddrOf(base_address, 1)
    /\ global_clock = 6

\* C35: after any sequence of fetch_block calls and executed instructions every cached
\* block is non-empty and is decode_until_end_of_a_block of the instruction memory from
\* its key PC, also when that PC lies inside another cached block; an entry is never
\* overwritten or removed; a fetch_block that fails leaves the cache unchanged.
C35_CacheInvariant ==
    [][/\ \A p \in DOMAIN basic_block_cache' :
             /\ basic_block_cache'[p] # <<>>
             /\ basic_block_cache'[p] =
                   decode_until_end_of_a_block(Segment(instruction_memory, base_address, p))
       /\ \A p \in DOMAIN basic_block_cache :
             /\ p \in DOMAIN basic_block_cache'
             /\ basic_block_cache'[p] = basic_block_cache[p]
       /\ (phase = "fetch" /\ last'.op = "fetch" /\ ~last'.ok) =>
             basic_block_cache' = basic_block_cache]_vars

\* the linear emulator has cached the block at the first word and the block at the
\* second word, which lies inside the first
C35_Witness ==
    /\ kind = "linear"
    /\ instruction_memory = <<ADDI_X1_X0_1, ADDI_X1_X0_1, JAL_X0_M4>>
    /\ DOMAIN basic_block_cache = {AddrOf(base_address, 0), AddrOf(base_address, 1)}
    /\ Len(basic_block_cache[AddrOf(base_address, 0)]) = 3
    /\ basic_block_cache[AddrOf(base_address, 1)]
          = SubSeq(basic_block_cache[AddrOf(base_address, 0)], 2, 3)
    /\ last.op = "fetch"
    /\ last.repeat
    /\ ~last.decoded

InsertedTypes == {inserted[i].type : i \in 1..Len(inserted)}

\* C37: after any sequence of successful inserts AllLookupElements holds exactly one
\* entry per inserted relation type, under that type's key and as that type's own
\* variant: as_ref::<T>() returns the value inserted for T whatever other types were
\* inserted, never panics on a variant mismatch, and panics with "lookup elements
\* weren't initialized" exactly when T was never inserted; is_empty() holds exactly
\* when nothing was inserted.
C37_OneEntryPerType ==
    ~panicked =>
        /\ Cardinality(DOMAIN all_lookup_elements) = Cardinality(InsertedTypes)
        /\ \A k \in DOMAIN all_lookup_elements :
              /\ all_lookup_elements[k].variant \in InsertedTypes
              /\ TypeIdOf(all_lookup_elements[k].variant) = k
        /\ \A i \in 1..Len(inserted) :
              as_ref(all_lookup_elements, inserted[i].type)
                  = [panic |-> "", value |-> inserted[i].relation]
        /\ \A j \in DOMAIN RelationTypes :
              /\ as_ref(all_lookup_elements, RelationTypes[j]).panic # "called unwrap on"
              /\ as_ref(all_lookup_elements, RelationTypes[j]).panic
                     = "lookup elements weren't initialized"
                  <=> RelationTypes[j] \notin InsertedTypes
        /\ is_empty(all_lookup_elements) <=> inserted = <<>>

\* three relation types inserted with different elements; the first is still read back
C37_Witness ==
    /\ ~panicked
    /\ Len(inserted) = 3
    /\ inserted[1] = [type |-> "Range8LookupElements", relation |-> 2]
    /\ inserted[2] = [type |-> "BitOpLookupElements", relation |-> 1]
    /\ inserted[3].type = "Range256LookupElements"
    /\ as_ref(all_lookup_elements, "Range8LookupElements").value = 2
    /\ as_ref(all_lookup_elements, "Range16LookupElements").panic
          = "lookup elements weren't initialized"
    /\ ~is_empty(all_lookup_elements)

\* C38: for every non-empty slice of instruction words, decode_until_end_of_a_block
\* returns the first block of decode_instructions, instruction for instruction.
C38_DecodersAgree ==
    (decoded = {"block", "program"} /\ slice # <<>>) =>
        /\ out_program # <<>>
        /\ Len(out_block) = Len(out_program[1])
        /\ \A i \in 1..Len(out_block) : out_block[i] = out_program[1][i]

\* the columns of the cells the last call of fill_main_trace wrote
WrittenColumns(log) == {log[k].col : k \in 1..Len(log)}

\* C39: when it is active for a row a chip's fill_main_trace writes only cells of that
\* row and writes each of its columns once: BgeuChip writes exactly Helper1, BorrowFlag,
\* ValueA, PcNext and CarryFlag, SltChip exactly Helper2, Helper3, SgnB, SgnC, Helper1,
\* CarryFlag, ValueA and ValueAEffective; no cell of another row is touched and no
\* (row, column) cell is written twice by the same call.
C39_FillWritesItsColumnsOnce ==
    [][filled' # filled =>
          /\ (filled' = Append(filled, "bgeu") /\ IsStep({"BGEU"})) =>
                WrittenColumns(written')
                    = {"Helper1", "BorrowFlag", "ValueA", "PcNext", "CarryFlag"}
          /\ (filled' = Append(filled, "slt") /\ IsStep({"SLT", "SLTI"})) =>
                WrittenColumns(written')
                    = {"Helper2", "Helper3", "SgnB", "SgnC", "Helper1", "CarryFlag",
                       "ValueA", "ValueAEffective"}
          /\ \A k \in 1..Len(written') : written'[k].row = row_idx
          /\ \A i, j \in 1..Len(written') : i # j => written'[i] # written'[j]
          /\ \A col \in Columns \ WrittenColumns(written') : traces'[col] = traces[col]]_vars

\* the SLT chip has filled row 5 after the BGEU chip had left it alone
C39_Witness ==
    /\ IsStep({"SLT"})
    /\ filled = <<"bgeu", "slt">>
    /\ forged = "none"
    /\ row_idx = 5
    /\ Len(written) = 8
    /\ written[1] = [row |-> 5, col |-> "Helper2"]
    /\ written[8] = [row |-> 5, col |-> "ValueAEffective"]
    /\ traces["Pc"] = WordBytes(vm_step.pc)
    /\ traces["BorrowFlag"] = <<77, 77, 77, 77>>

====
